---- MODULE Spec2Model ----
(***************************************************************************)
(* A model of the tracing/orchestration core of financial-ai-analyst:      *)
(*   config/langsmith_config.py      LangSmithConfig (observability sink)  *)
(*   services/enhanced_qa_chatbot.py EnhancedQAChatbot.ask_question        *)
(*   agents/enhanced_base_agent.py   EnhancedBaseAgent.execute, _call_llm  *)
(*                                                                         *)
(* Python values: None of an id is NoId, None of an error is NoErr, None   *)
(* of a dict is NoneValue; dicts are records; lists are sequences.         *)
(* A coroutine runs atomically between two awaits (asyncio), so every      *)
(* action below is one such segment of a coroutine.                        *)
(***************************************************************************)
EXTENDS Integers, Sequences, FiniteSets, TLC

\* ---------------------------------------------------------------- bounds
MaxDocs == 2     \* longest sequence the search collaborator returns
MaxDirect == 2   \* direct create_run calls between two clean-ups of the model
MaxSessionCalls == 3  \* session and custom-event calls between two clean-ups
MaxEvents == 3   \* user events of the UI, or requests of the HTTP API, in a run

\* ---------------------------------------------------------------- values
NoId == 0
NoErr == "None"
NoneValue == [none |-> TRUE]
Unset == "<unset>"
\* the empty string given as a session id
EmptyId == -1
\* a session id the caller chose itself (no uuid4 value)
CallerId == 99

Questions == {"What is the revenue?", "Who audits Test Corp?"}
CompanyInfos == {"{}", "{name: Test Corp}"}
DocIds == {"doc1", "doc2"}
DocSeqs == UNION {[1..n -> DocIds] : n \in 0..MaxDocs}
Answers == {"", "Test answer"}
\* failures a collaborator raises (subclasses of Exception)
Errors == {"LookupFailure", "RuntimeError"}
\* raised by asyncio at an await of a cancelled task; a BaseException
CancelledError == "CancelledError"
\* raised by the tracing backend's client
TransportError == "TransportError"
\* raised by Client(...) when the client cannot be built
ClientInitError == "ClientInitError"

\* `except Exception` catches e
IsException(e) == e # NoErr /\ e # CancelledError

\* the environment read at import time
TracingEnv == {Unset, "true", "TRUE", "false"}
ApiKeyEnv == {Unset, "", "test-key"}
Environments == [LANGSMITH_TRACING : TracingEnv, LANGSMITH_API_KEY : ApiKeyEnv,
                 client_raises : BOOLEAN]

\* transport outcomes of the backend calls of one segment, in call order
\* (TRUE: the call raises); a segment makes at most three sink calls
TransportChoices == [1..3 -> BOOLEAN]
NoFailures == [i \in 1..3 |-> FALSE]

VARIABLES
    env,      \* os.environ and whether Client(...) raises, as found at import
    cfg,      \* langsmith_config, the global LangSmithConfig
    chatbot,  \* the EnhancedQAChatbot
    agent,    \* an EnhancedBaseAgent (a concrete subclass)
    ask,      \* the frame of the ask_question call in progress
    run,      \* the frame of the execute or _call_llm call in progress
    direct,   \* what the last direct create_run/end_run call did
    spans,    \* the tracing backend: run id -> span
    nextId,   \* source of uuid4 values
    sess,     \* the last session or custom-event call on the chatbot, and
              \* the session calls made before it
    ask2,     \* the frame of a second ask_question call on the same chatbot
    ui,       \* app.py: st.session_state of one browser session, and what
              \* the last page run did
    http,     \* main.py: the module globals, and the last request handled
    tmp       \* the temporary files: how many were created, which exist

vars == <<env, cfg, chatbot, agent, ask, run, direct, spans, nextId, sess, ask2,
          ui, http, tmp>>

\* ------------------------------------------- config/langsmith_config.py
\* os.getenv(name, default)
getenv(value, default) == IF value = Unset THEN default ELSE value

\* str.lower() on the values the environment holds
lower(s) == IF s = "TRUE" THEN "true" ELSE s

\* truth value of an optional string: None and "" are false
truthy(s) == s # Unset /\ s # ""

\* _initialize_client without its try/except
initialize_client_uncaught(c, e) ==
    IF e.client_raises
    THEN [c EXCEPT !.ctor_raised = ClientInitError]
    ELSE [c EXCEPT !.client = TRUE]

\* LangSmithConfig._initialize_client
initialize_client(c, e) ==
    IF e.client_raises
    THEN [c EXCEPT !.enabled = FALSE]
    ELSE [c EXCEPT !.client = TRUE]

\* LangSmithConfig.__init__
LangSmithConfig(e) ==
    LET enabled0 == lower(getenv(e.LANGSMITH_TRACING, "false")) = "true"
        api_key == e.LANGSMITH_API_KEY
        enabled1 == IF enabled0 /\ ~truthy(api_key) THEN FALSE ELSE enabled0
        c == [constructed |-> TRUE, enabled |-> enabled1, api_key |-> api_key,
              client |-> FALSE, ctor_raised |-> NoErr]
    IN IF enabled1 THEN initialize_client(c, e) ELSE c

\* LangSmithConfig.is_enabled
is_enabled(c) == c.enabled

\* the backend behind Client.create_run: the call raises, or records an open span
client_create_run(sp, name, run_id, parent, fails) ==
    IF fails
    THEN [raised |-> TransportError, spans |-> sp]
    ELSE [raised |-> NoErr,
          spans |-> (run_id :> [name |-> name, parent |-> parent, open |-> TRUE,
                                outputs |-> NoneValue, error |-> NoErr]) @@ sp]

\* the backend behind Client.end_run: the call raises, or closes the open span
client_end_run(sp, run_id, outputs, error, fails) ==
    IF fails
    THEN [raised |-> TransportError, spans |-> sp]
    ELSE [raised |-> NoErr,
          spans |-> IF run_id \in DOMAIN sp /\ sp[run_id].open
                    THEN [sp EXCEPT ![run_id].open = FALSE,
                                    ![run_id].outputs = outputs,
                                    ![run_id].error = error]
                    ELSE sp]

\* what a sink call did: its return value (a run handle or None), what it
\* raised to its caller, whether the backend client was called (sent) and
\* answered (ok), and whether an error was logged
SinkResult(ret, raised, sent, ok, logged, sp) ==
    [ret |-> ret, raised |-> raised, sent |-> sent, ok |-> ok, logged |-> logged,
     spans |-> sp]

\* create_run with the disabled guard missing
create_run_noguard(c, sp, name, run_id, parent, fails) ==
    IF ~c.client
    THEN SinkResult(NoId, NoErr, FALSE, FALSE, TRUE, sp)
    ELSE LET r == client_create_run(sp, name, run_id, parent, fails)
         IN IF r.raised # NoErr
            THEN SinkResult(NoId, NoErr, TRUE, FALSE, TRUE, sp)
            ELSE SinkResult(run_id, NoErr, TRUE, TRUE, FALSE, r.spans)

\* create_run without its try/except
create_run_uncaught(c, sp, name, run_id, parent, fails) ==
    IF ~c.enabled \/ ~c.client
    THEN SinkResult(NoId, NoErr, FALSE, FALSE, FALSE, sp)
    ELSE LET r == client_create_run(sp, name, run_id, parent, fails)
         IN IF r.raised # NoErr
            THEN SinkResult(NoId, r.raised, TRUE, FALSE, FALSE, sp)
            ELSE SinkResult(run_id, NoErr, TRUE, TRUE, FALSE, r.spans)

\* LangSmithConfig.create_run
create_run(c, sp, name, run_id, parent, fails) ==
    IF ~c.enabled \/ ~c.client
    THEN SinkResult(NoId, NoErr, FALSE, FALSE, FALSE, sp)
    ELSE LET r == client_create_run(sp, name, run_id, parent, fails)
         IN IF r.raised # NoErr
            THEN SinkResult(NoId, NoErr, TRUE, FALSE, TRUE, sp)
            ELSE SinkResult(run_id, NoErr, TRUE, TRUE, FALSE, r.spans)

\* end_run without its try/except
end_run_uncaught(c, sp, run_id, outputs, error, fails) ==
    IF ~c.enabled \/ ~c.client
    THEN SinkResult(NoId, NoErr, FALSE, FALSE, FALSE, sp)
    ELSE LET r == client_end_run(sp, run_id, outputs, error, fails)
         IN IF r.raised # NoErr
            THEN SinkResult(NoId, r.raised, TRUE, FALSE, FALSE, sp)
            ELSE SinkResult(NoId, NoErr, TRUE, TRUE, FALSE, r.spans)

\* LangSmithConfig.end_run
end_run(c, sp, run_id, outputs, error, fails) ==
    IF ~c.enabled \/ ~c.client
    THEN SinkResult(NoId, NoErr, FALSE, FALSE, FALSE, sp)
    ELSE LET r == client_end_run(sp, run_id, outputs, error, fails)
         IN IF r.raised # NoErr
            THEN SinkResult(NoId, NoErr, TRUE, FALSE, TRUE, sp)
            ELSE SinkResult(NoId, NoErr, TRUE, TRUE, FALSE, r.spans)

\* --------------------------------- services/enhanced_qa_chatbot.py
\* the local flag taken from the argument alone
EnhancedQAChatbot_local_only(enable_tracing, c) ==
    [constructed |-> TRUE, requested |-> enable_tracing,
     enable_tracing |-> enable_tracing]

\* EnhancedQAChatbot.__init__: the local flag is the argument ANDed with the
\* global flag
EnhancedQAChatbot(enable_tracing, c) ==
    [constructed |-> TRUE, requested |-> enable_tracing,
     enable_tracing |-> enable_tracing /\ is_enabled(c)]

\* outcomes of the three collaborators: a value, or a raised failure
ExtractOutcomes == {[err |-> NoErr, val |-> v] : v \in CompanyInfos}
                   \cup {[err |-> e, val |-> "None"] : e \in Errors}
SearchOutcomes == {[err |-> NoErr, val |-> v] : v \in DocSeqs}
                  \cup {[err |-> e, val |-> <<>>] : e \in Errors}
GenerateOutcomes == {[err |-> NoErr, val |-> v] : v \in Answers}
                    \cup {[err |-> e, val |-> "None"] : e \in Errors}
\* the await raises CancelledError: the host cancelled the task
Cancelled(val) == [err |-> CancelledError, val |-> val]

\* the frame of one ask_question call: its position, its locals, what it
\* returned or raised, and a record of the calls it made to the collaborators
\* (calls, and results once they answer) and to the sink (sinkLog)
IdleAsk ==
    [pc |-> "idle", question |-> "None", run_id |-> NoId,
     company_extraction_run_id |-> NoId, document_search_run_id |-> NoId,
     answer_generation_run_id |-> NoId,
     company_info |-> "None", relevant_docs |-> <<>>, answer |-> "None",
     exc |-> NoErr, outcome |-> "none", result |-> NoneValue,
     calls |-> <<>>, results |-> <<>>, sinkLog |-> <<>>]

\* a frame together with the sink state it acts on and the transport
\* outcomes (tf) of the sink calls of the running segment, k the next one
Machine(f, sp, id, tf) == [f |-> f, spans |-> sp, nextId |-> id, tf |-> tf, k |-> 1]

Raised(m) == m.f.exc # NoErr
NextFails(m) == m.k \in DOMAIN m.tf /\ m.tf[m.k]

\* ids numbered anew by every call: two calls produce the same ids
uuid4_per_call(m) == Len(m.f.sinkLog) + 1

\* str(uuid.uuid4()): an id no earlier call produced
uuid4(m) == m.nextId

SinkEntry(op, name, run_id, parent, outputs, error, r) ==
    [op |-> op, name |-> name, run_id |-> run_id, parent |-> parent,
     outputs |-> outputs, error |-> error,
     sent |-> r.sent, ok |-> r.ok, raised |-> r.raised, logged |-> r.logged]

\* langsmith_config.create_run(name=..., run_id=..., parent_run_id=...) in a frame
CallCreate(m, c, name, run_id, parent) ==
    LET r == create_run(c, m.spans, name, run_id, parent, NextFails(m))
    IN [m EXCEPT !.spans = r.spans, !.k = @ + 1, !.f.exc = r.raised,
                 !.f.sinkLog = Append(@, SinkEntry("create", name, run_id, parent,
                                                   NoneValue, NoErr, r))]

\* langsmith_config.end_run(run_id, outputs=..., error=...) in a frame
CallEnd(m, c, run_id, outputs, error) ==
    LET r == end_run(c, m.spans, run_id, outputs, error, NextFails(m))
    IN [m EXCEPT !.spans = r.spans, !.k = @ + 1, !.f.exc = r.raised,
                 !.f.sinkLog = Append(@, SinkEntry("end", "None", run_id, NoId,
                                                   outputs, error, r))]

\* `await self._<stage>(args)`: the collaborator is invoked and the frame suspends
Invoke(m, stage, args) ==
    [m EXCEPT !.f.pc = stage, !.f.calls = Append(@, [stage |-> stage, args |-> args])]

\* the frame ends by raising m.f.exc
FinishRaise(m) == [m EXCEPT !.f.pc = "done", !.f.outcome = "raised"]

\* the frame ends by returning result
FinishReturn(m, result) ==
    [m EXCEPT !.f.pc = "done", !.f.outcome = "returned", !.f.result = result]

\* ask_question, lines 152-158, with the error wrapped instead of re-raised
ask_except_wrapping(m, c, et) ==
    IF ~IsException(m.f.exc) THEN FinishRaise(m)
    ELSE LET e == m.f.exc
             m1 == IF et /\ m.f.run_id # NoId
                   THEN CallEnd([m EXCEPT !.f.exc = NoErr], c, m.f.run_id, NoneValue, e)
                   ELSE m
         IN FinishRaise(IF Raised(m1) THEN m1 ELSE [m1 EXCEPT !.f.exc = "ChatbotError"])

\* ask_question, lines 152-158, without the closing of the root span
ask_except_noclose(m, c, et) ==
    FinishRaise(m)

\* ask_question, lines 152-158, catching every BaseException
ask_except_catch_all(m, c, et) ==
    LET e == m.f.exc
        m1 == IF et /\ m.f.run_id # NoId
              THEN CallEnd([m EXCEPT !.f.exc = NoErr], c, m.f.run_id, NoneValue, e)
              ELSE m
    IN FinishRaise(IF Raised(m1) THEN m1 ELSE [m1 EXCEPT !.f.exc = e])

\* ask_question, lines 152-158: except Exception as e: log, close the root
\* span with the error, re-raise. An exception raised inside the handler
\* replaces e. A BaseException that is no Exception passes the handler by.
ask_except(m, c, et) ==
    IF ~IsException(m.f.exc) THEN FinishRaise(m)
    ELSE LET e == m.f.exc
             m1 == IF et /\ m.f.run_id # NoId
                   THEN CallEnd([m EXCEPT !.f.exc = NoErr], c, m.f.run_id, NoneValue, e)
                   ELSE m
         IN FinishRaise(IF Raised(m1) THEN m1 ELSE [m1 EXCEPT !.f.exc = e])

\* the stage handler recording the failure as outputs of the child span
stage_except_as_outputs(m, c, et, child) ==
    IF ~IsException(m.f.exc) THEN m
    ELSE LET e == m.f.exc
             m1 == IF et /\ child # NoId
                   THEN CallEnd([m EXCEPT !.f.exc = NoErr], c, child, [error |-> e], NoErr)
                   ELSE m
         IN IF Raised(m1) THEN m1 ELSE [m1 EXCEPT !.f.exc = e]

\* the handler of a stage (lines 75-78, 100-103, 129-132): except Exception
\* as e: close the child span with the error, re-raise
stage_except(m, c, et, child) ==
    IF ~IsException(m.f.exc) THEN m
    ELSE LET e == m.f.exc
             m1 == IF et /\ child # NoId
                   THEN CallEnd([m EXCEPT !.f.exc = NoErr], c, child, NoneValue, e)
                   ELSE m
         IN IF Raised(m1) THEN m1 ELSE [m1 EXCEPT !.f.exc = e]

\* the try block of a stage once its await is over (r: what the await gave):
\* on a value, close the child span with outputs; on a raise, the handler
stage_try(m, c, et, child, r, outputs) ==
    IF r.err = NoErr
    THEN LET m1 == IF et /\ child # NoId
                   THEN CallEnd(m, c, child, outputs, NoErr)
                   ELSE m
         IN IF Raised(m1) THEN stage_except(m1, c, et, child) ELSE m1
    ELSE stage_except([m EXCEPT !.f.exc = r.err], c, et, child)

\* the exchange record counting the distinct sources
Exchange_distinct(question, answer, company_info, relevant_docs) ==
    [question |-> question, answer |-> answer, company_info |-> company_info,
     sources |-> relevant_docs,
     document_count |-> Cardinality({relevant_docs[i] : i \in DOMAIN relevant_docs})]

\* the exchange record, lines 134-140
Exchange(question, answer, company_info, relevant_docs) ==
    [question |-> question, answer |-> answer, company_info |-> company_info,
     sources |-> relevant_docs, document_count |-> Len(relevant_docs)]

\* the answer_generation span opened under the document_search span
generate_enter_chained(m, c, et) ==
    LET id == uuid4(m)
        m1 == IF et
              THEN CallCreate([m EXCEPT !.f.answer_generation_run_id = id,
                                        !.nextId = @ + 1],
                              c, "answer_generation", id, m.f.document_search_run_id)
              ELSE m
    IN IF Raised(m1) THEN ask_except(m1, c, et)
       ELSE Invoke(m1, "generate",
                   <<m1.f.question, m1.f.relevant_docs, m1.f.company_info>>)

\* lines 105-122: open the answer_generation span, then await _generate_answer
generate_enter(m, c, et) ==
    LET id == uuid4(m)
        m1 == IF et
              THEN CallCreate([m EXCEPT !.f.answer_generation_run_id = id,
                                        !.nextId = @ + 1],
                              c, "answer_generation", id, m.f.run_id)
              ELSE m
    IN IF Raised(m1) THEN ask_except(m1, c, et)
       ELSE Invoke(m1, "generate",
                   <<m1.f.question, m1.f.relevant_docs, m1.f.company_info>>)

\* the search stage called without extraction's result
search_enter_stale(m, c, et) ==
    LET id == uuid4(m)
        m1 == IF et
              THEN CallCreate([m EXCEPT !.f.document_search_run_id = id,
                                        !.nextId = @ + 1],
                              c, "document_search", id, m.f.run_id)
              ELSE m
    IN IF Raised(m1) THEN ask_except(m1, c, et)
       ELSE Invoke(m1, "search", <<"None", m1.f.question>>)

\* lines 80-93: open the document_search span, then await _search_documents
search_enter(m, c, et) ==
    LET id == uuid4(m)
        m1 == IF et
              THEN CallCreate([m EXCEPT !.f.document_search_run_id = id,
                                        !.nextId = @ + 1],
                              c, "document_search", id, m.f.run_id)
              ELSE m
    IN IF Raised(m1) THEN ask_except(m1, c, et)
       ELSE Invoke(m1, "search", <<m1.f.company_info, m1.f.question>>)

\* lines 37-68: open the root span and the company_extraction span, then
\* await _extract_company_info
ask_enter(m, c, et) ==
    LET id == uuid4(m)
        m1 == IF et
              THEN CallCreate([m EXCEPT !.f.run_id = id, !.nextId = @ + 1],
                              c, "EnhancedQAChatbot_query", id, NoId)
              ELSE m
        id2 == uuid4(m1)
        m2 == IF et /\ ~Raised(m1)
              THEN CallCreate([m1 EXCEPT !.f.company_extraction_run_id = id2,
                                         !.nextId = @ + 1],
                              c, "company_extraction", id2, m1.f.run_id)
              ELSE m1
    IN IF Raised(m2) THEN ask_except(m2, c, et)
       ELSE Invoke(m2, "extract", <<m2.f.question>>)

\* lines 68-93: the await of _extract_company_info is over with r
after_extract(m, c, et, r) ==
    LET m0 == [m EXCEPT !.f.results = Append(@, r),
                        !.f.company_info = IF r.err = NoErr THEN r.val ELSE @]
        m1 == stage_try(m0, c, et, m.f.company_extraction_run_id, r,
                        [company_info |-> r.val])
    IN IF Raised(m1) THEN ask_except(m1, c, et) ELSE search_enter(m1, c, et)

\* lines 93-122: the await of _search_documents is over with r
after_search(m, c, et, r) ==
    LET m0 == [m EXCEPT !.f.results = Append(@, r),
                        !.f.relevant_docs = IF r.err = NoErr THEN r.val ELSE @]
        m1 == stage_try(m0, c, et, m.f.document_search_run_id, r,
                        [document_count |-> Len(r.val)])
    IN IF Raised(m1) THEN ask_except(m1, c, et) ELSE generate_enter(m1, c, et)

\* the root span closed with the answer alone
after_generate_partial(m, c, et, r) ==
    LET m0 == [m EXCEPT !.f.results = Append(@, r),
                        !.f.answer = IF r.err = NoErr THEN r.val ELSE @]
        m1 == stage_try(m0, c, et, m.f.answer_generation_run_id, r,
                        [answer |-> r.val])
        result == Exchange(m1.f.question, m1.f.answer, m1.f.company_info,
                           m1.f.relevant_docs)
        m2 == IF et /\ m1.f.run_id # NoId
              THEN CallEnd(m1, c, m1.f.run_id, [answer |-> m1.f.answer], NoErr)
              ELSE m1
    IN IF Raised(m1) THEN ask_except(m1, c, et)
       ELSE IF Raised(m2) THEN ask_except(m2, c, et)
       ELSE FinishReturn(m2, result)

\* lines 122-150: the await of _generate_answer is over with r; assemble the
\* exchange record, close the root span with it, return it
after_generate(m, c, et, r) ==
    LET m0 == [m EXCEPT !.f.results = Append(@, r),
                        !.f.answer = IF r.err = NoErr THEN r.val ELSE @]
        m1 == stage_try(m0, c, et, m.f.answer_generation_run_id, r,
                        [answer |-> r.val])
        result == Exchange(m1.f.question, m1.f.answer, m1.f.company_info,
                           m1.f.relevant_docs)
        m2 == IF et /\ m1.f.run_id # NoId
              THEN CallEnd(m1, c, m1.f.run_id, result, NoErr)
              ELSE m1
    IN IF Raised(m1) THEN ask_except(m1, c, et)
       ELSE IF Raised(m2) THEN ask_except(m2, c, et)
       ELSE FinishReturn(m2, result)

\* the segment an ask_question frame runs when its pending await is over with r
ask_resume(m, c, et, r) ==
    CASE m.f.pc = "extract" -> after_extract(m, c, et, r)
      [] m.f.pc = "search" -> after_search(m, c, et, r)
      [] m.f.pc = "generate" -> after_generate(m, c, et, r)
      [] OTHER -> m

\* what the collaborator awaited at pc can answer
StageOutcomes(pc) ==
    CASE pc = "extract" -> ExtractOutcomes
      [] pc = "search" -> SearchOutcomes
      [] pc = "generate" -> GenerateOutcomes
      [] OTHER -> {}

\* the value an await that raises leaves unassigned
NoVal(pc) == IF pc = "search" THEN <<>> ELSE "None"

Awaiting(f) == f.pc \in {"extract", "search", "generate"}

\* ---------------------- sessions and custom events (same file, 160-227)
\* the summaries given to end_conversation_session: None, "", a text
Summaries == {Unset, "", "Test summary"}
\* the data given to trace_custom_event
EventData == [test |-> "data"]

\* `not session_id`: None and the empty string are false
no_session_id(session_id) == session_id = NoId \/ session_id = EmptyId

\* the frame of one session or custom-event call: the call (op and its
\* arguments), its locals, what it returned or raised, the sink calls it
\* made, the spans it found (before), and the calls made before it (hist)
IdleSess ==
    [pc |-> "idle", op |-> "none", arg |-> NoId, summary |-> Unset,
     session_id |-> NoId, run_id |-> NoId,
     exc |-> NoErr, outcome |-> "none", result |-> NoId,
     sinkLog |-> <<>>, before |-> <<>>, hist |-> <<>>]

\* the outputs always carrying the summary
session_outputs_always(summary) ==
    [session_ended |-> TRUE, summary |-> summary]

\* the outputs end_conversation_session closes the session span with
session_outputs(summary) ==
    IF truthy(summary)
    THEN [session_ended |-> TRUE, summary |-> summary]
    ELSE [session_ended |-> TRUE]

\* start_conversation_session opening its span under an id of its own
start_conversation_session_own_run_id(m, c, et) ==
    LET generate == no_session_id(m.f.arg)
        session_id == IF generate THEN uuid4(m) ELSE m.f.arg
        m0 == [m EXCEPT !.f.session_id = session_id,
                        !.nextId = IF generate THEN @ + 2 ELSE @ + 1]
        m1 == IF et
              THEN CallCreate(m0, c, "EnhancedQAChatbot_session", m0.nextId - 1, NoId)
              ELSE m0
    IN IF Raised(m1) THEN FinishRaise(m1) ELSE FinishReturn(m1, session_id)

\* start_conversation_session refusing an id whose span is open
start_conversation_session_checked(m, c, et) ==
    LET generate == no_session_id(m.f.arg)
        session_id == IF generate THEN uuid4(m) ELSE m.f.arg
        m0 == [m EXCEPT !.f.session_id = session_id,
                        !.nextId = IF generate THEN @ + 1 ELSE @]
        m1 == IF et
              THEN CallCreate(m0, c, "EnhancedQAChatbot_session", session_id, NoId)
              ELSE m0
    IN IF session_id \in DOMAIN m.spans /\ m.spans[session_id].open
       THEN FinishRaise([m0 EXCEPT !.f.exc = "ValueError"])
       ELSE IF Raised(m1) THEN FinishRaise(m1) ELSE FinishReturn(m1, session_id)

\* start_conversation_session, lines 170-182
start_conversation_session(m, c, et) ==
    LET generate == no_session_id(m.f.arg)
        session_id == IF generate THEN uuid4(m) ELSE m.f.arg
        m0 == [m EXCEPT !.f.session_id = session_id,
                        !.nextId = IF generate THEN @ + 1 ELSE @]
        m1 == IF et
              THEN CallCreate(m0, c, "EnhancedQAChatbot_session", session_id, NoId)
              ELSE m0
    IN IF Raised(m1) THEN FinishRaise(m1) ELSE FinishReturn(m1, session_id)

\* end_conversation_session refusing a session whose span is not open
end_conversation_session_strict(m, c, et) ==
    LET m0 == [m EXCEPT !.f.session_id = m.f.arg]
        m1 == IF et
              THEN CallEnd(m0, c, m.f.arg, session_outputs(m.f.summary), NoErr)
              ELSE m0
    IN IF et /\ ~(m.f.arg \in DOMAIN m.spans /\ m.spans[m.f.arg].open)
       THEN FinishRaise([m0 EXCEPT !.f.exc = "KeyError"])
       ELSE IF Raised(m1) THEN FinishRaise(m1) ELSE FinishReturn(m1, NoId)

\* end_conversation_session, lines 191-198
end_conversation_session(m, c, et) ==
    LET m0 == [m EXCEPT !.f.session_id = m.f.arg]
        m1 == IF et
              THEN CallEnd(m0, c, m.f.arg, session_outputs(m.f.summary), NoErr)
              ELSE m0
    IN IF Raised(m1) THEN FinishRaise(m1) ELSE FinishReturn(m1, NoId)

\* trace_custom_event with the closing of the event span left out
trace_custom_event_noclose(m, c, et) ==
    IF ~et THEN FinishReturn(m, NoId)
    ELSE LET run_id == uuid4(m)
             m0 == [m EXCEPT !.f.session_id = m.f.arg, !.f.run_id = run_id,
                             !.nextId = @ + 1]
             m1 == CallCreate(m0, c, "test_event", run_id, m.f.arg)
         IN IF ~Raised(m1) THEN FinishReturn(m1, NoId)
            ELSE IF IsException(m1.f.exc)
            THEN FinishReturn([m1 EXCEPT !.f.exc = NoErr], NoId)
            ELSE FinishRaise(m1)

\* trace_custom_event, lines 208-227: return when tracing is off; else try:
\* open a span with a fresh id and close it; except Exception: log
trace_custom_event(m, c, et) ==
    IF ~et THEN FinishReturn(m, NoId)
    ELSE LET run_id == uuid4(m)
             m0 == [m EXCEPT !.f.session_id = m.f.arg, !.f.run_id = run_id,
                             !.nextId = @ + 1]
             m1 == CallCreate(m0, c, "test_event", run_id, m.f.arg)
             m2 == IF Raised(m1) THEN m1
                   ELSE CallEnd(m1, c, run_id, [event_processed |-> TRUE], NoErr)
         IN IF ~Raised(m2) THEN FinishReturn(m2, NoId)
            ELSE IF IsException(m2.f.exc)
            THEN FinishReturn([m2 EXCEPT !.f.exc = NoErr], NoId)
            ELSE FinishRaise(m2)

\* the session id a call was about: the one start returned, the one end or
\* the event was given
HistEntry(f) == [op |-> f.op, session_id |-> f.session_id,
                 generated |-> f.op = "start" /\ no_session_id(f.arg)]

\* the frame of a new call made after the call whose frame is f
NewSess(f, sp, op, arg, summary) ==
    [IdleSess EXCEPT !.op = op, !.arg = arg, !.summary = summary,
                     !.before = sp, !.hist = f.hist]

\* the session ids a caller holds: those the calls so far were about, and
\* one of its own
KnownIds(f) == {f.hist[i].session_id : i \in DOMAIN f.hist} \ {NoId}
SuppliedIds(f) == KnownIds(f) \cup {CallerId}

\* --------------------------------------- agents/enhanced_base_agent.py
\* EnhancedBaseAgent.__init__, line 32
EnhancedBaseAgent(enable_tracing, c) ==
    [constructed |-> TRUE, requested |-> enable_tracing,
     enable_tracing |-> enable_tracing /\ is_enabled(c)]

\* dicts given to and returned by _execute; None (NoneValue) has no .keys()
Mappings == {[test |-> "data"], [result |-> "test"]}
has_keys(v) == v # NoneValue
\* message lists given to _call_llm: BaseMessage objects, or plain dicts
\* (which have no .content attribute)
MessageLists == {[kind |-> "BaseMessage", content |-> "test"],
                 [kind |-> "dict", content |-> "test"]}
has_content(msgs) == msgs.kind = "BaseMessage"
\* responses of llm.ainvoke: with a .content attribute, or without one
Responses == {[content |-> "test response", str |-> "AIMessage(test response)"],
              [content |-> Unset, str |-> "raw response"]}

ExecuteOutcomes == {[err |-> NoErr, val |-> v] : v \in Mappings \cup {NoneValue}}
                   \cup {[err |-> e, val |-> NoneValue] : e \in Errors}
LlmOutcomes == {[err |-> NoErr, val |-> v] : v \in Responses}
               \cup {[err |-> e, val |-> NoneValue] : e \in Errors}

\* the frame of one execute or _call_llm call
IdleRun ==
    [pc |-> "idle", kind |-> "none", input |-> NoneValue, run_id |-> NoId,
     exc |-> NoErr, outcome |-> "none", result |-> NoneValue,
     calls |-> <<>>, results |-> <<>>, sinkLog |-> <<>>]

\* execute, lines 83-92, answering a failure with an empty result
execute_except_swallow(m, c, et) ==
    IF ~IsException(m.f.exc) THEN FinishRaise(m)
    ELSE LET e == m.f.exc
             m1 == IF et /\ m.f.run_id # NoId
                   THEN CallEnd([m EXCEPT !.f.exc = NoErr], c, m.f.run_id, NoneValue, e)
                   ELSE m
         IN IF Raised(m1) THEN FinishRaise(m1)
            ELSE FinishReturn(m1, NoneValue)

\* execute, lines 83-92: except Exception as e: log, close the span with the
\* error, re-raise
execute_except(m, c, et) ==
    IF ~IsException(m.f.exc) THEN FinishRaise(m)
    ELSE LET e == m.f.exc
             m1 == IF et /\ m.f.run_id # NoId
                   THEN CallEnd([m EXCEPT !.f.exc = NoErr], c, m.f.run_id, NoneValue, e)
                   ELSE m
         IN FinishRaise(IF Raised(m1) THEN m1 ELSE [m1 EXCEPT !.f.exc = e])

\* execute, lines 56-72: open the span, log the input keys, await _execute
execute_enter(m, c, et) ==
    LET id == uuid4(m)
        m1 == IF et
              THEN CallCreate([m EXCEPT !.f.run_id = id, !.nextId = @ + 1],
                              c, "Agent_execute", id, NoId)
              ELSE m
    IN IF Raised(m1) THEN execute_except(m1, c, et)
       ELSE IF ~has_keys(m1.f.input)
       THEN execute_except([m1 EXCEPT !.f.exc = "AttributeError"], c, et)
       ELSE Invoke(m1, "_execute", <<m1.f.input>>)

\* execute, lines 72-81: the await of _execute is over with r; log the result
\* keys, close the span with the result, return it
after_execute(m, c, et, r) ==
    LET m0 == [m EXCEPT !.f.results = Append(@, r)]
        m1 == IF et /\ m0.f.run_id # NoId
              THEN CallEnd(m0, c, m0.f.run_id, r.val, NoErr)
              ELSE m0
    IN IF r.err # NoErr THEN execute_except([m0 EXCEPT !.f.exc = r.err], c, et)
       ELSE IF ~has_keys(r.val)
       THEN execute_except([m0 EXCEPT !.f.exc = "AttributeError"], c, et)
       ELSE IF Raised(m1) THEN execute_except(m1, c, et)
       ELSE FinishReturn(m1, r.val)

\* _call_llm, lines 136-142: except Exception as e: log, close the span with
\* the error, re-raise
call_llm_except(m, c, et) ==
    IF ~IsException(m.f.exc) THEN FinishRaise(m)
    ELSE LET e == m.f.exc
             m1 == IF et /\ m.f.run_id # NoId
                   THEN CallEnd([m EXCEPT !.f.exc = NoErr], c, m.f.run_id, NoneValue, e)
                   ELSE m
         IN FinishRaise(IF Raised(m1) THEN m1 ELSE [m1 EXCEPT !.f.exc = e])

\* _call_llm, lines 117-128: with tracing, read every message's .content for
\* the span inputs and open the span; then await llm.ainvoke
call_llm_enter(m, c, et) ==
    LET id == uuid4(m)
        m0 == [m EXCEPT !.f.run_id = id, !.nextId = @ + 1]
        m1 == IF et
              THEN IF has_content(m.f.input)
                   THEN CallCreate(m0, c, "Agent_llm_call", id, NoId)
                   ELSE [m0 EXCEPT !.f.exc = "AttributeError"]
              ELSE m
    IN IF Raised(m1) THEN call_llm_except(m1, c, et)
       ELSE Invoke(m1, "ainvoke", <<m1.f.input>>)

\* getattr(response, "content", str(response))
response_text(response) ==
    IF response.content # Unset THEN response.content ELSE response.str

\* _call_llm, lines 128-134: the await of llm.ainvoke is over with r
after_ainvoke(m, c, et, r) ==
    LET m0 == [m EXCEPT !.f.results = Append(@, r)]
        result == response_text(r.val)
        m1 == IF et /\ m0.f.run_id # NoId
              THEN CallEnd(m0, c, m0.f.run_id, [response |-> result], NoErr)
              ELSE m0
    IN IF r.err # NoErr THEN call_llm_except([m0 EXCEPT !.f.exc = r.err], c, et)
       ELSE IF Raised(m1) THEN call_llm_except(m1, c, et)
       ELSE FinishReturn(m1, result)

\* the segment an agent frame runs when its pending await is over with r
run_resume(m, c, et, r) ==
    CASE m.f.pc = "_execute" -> after_execute(m, c, et, r)
      [] m.f.pc = "ainvoke" -> after_ainvoke(m, c, et, r)
      [] OTHER -> m

RunOutcomes(pc) ==
    CASE pc = "_execute" -> ExecuteOutcomes
      [] pc = "ainvoke" -> LlmOutcomes
      [] OTHER -> {}

NoRunVal(pc) == NoneValue

\* ------------------------------------------- app.py and main.py: state
\* what a page run of the UI did: the user's event, the history it found,
\* how its ask_question call ended, the temporary file it created (0: none)
\* and how process_document ended
NoRun ==
    [event |-> "none", before |-> <<>>, asked |-> FALSE, outcome |-> "none",
     exc |-> NoErr, result |-> NoneValue, file |-> 0, processing |-> "none"]

\* st.session_state before init_session_state (app.py, 27-40), with a record
\* of the sessions the UI started (started), called end_conversation_session
\* for (ended), and of the stored ids it found when it started one (over)
IdleUi ==
    [initialized |-> FALSE, ready |-> FALSE, document_processor |-> FALSE,
     conversation_history |-> <<>>, processed_documents |-> <<>>,
     session_id |-> NoId, langsmith_enabled |-> FALSE,
     rerun |-> FALSE, events |-> 0,
     started |-> {}, ended |-> {}, over |-> {}, last |-> NoRun]

\* what a request handler of main.py did: the request (answers: what the
\* collaborators of the pipeline answer when asked), the status of the
\* response and its body, the temporary file created, how file.read and
\* process_document ended, and whether ask_question ran
NoRequest ==
    [op |-> "none", filename |-> "", extension |-> "", session_arg |-> NoId,
     question |-> "None", answers |-> <<>>,
     chatbot_ready |-> FALSE, status |-> 0, detail |-> "None",
     session_id |-> NoId, answer |-> "None", sources |-> <<>>,
     file |-> 0, read |-> "none", processing |-> "none",
     pipeline |-> "none", stages |-> <<>>]

\* the module globals of main.py (46-48) before startup
IdleHttp ==
    [started |-> FALSE, document_processor |-> FALSE, langsmith_enabled |-> FALSE,
     requests |-> 0, last |-> NoRequest]

\* no temporary file was created yet
NoFiles == [created |-> 0, existing |-> {}]

\* ------------------------------------------------------------ the system
NoDirect == [op |-> "none"]

Init ==
    /\ env \in Environments
    /\ cfg = [constructed |-> FALSE, enabled |-> FALSE, api_key |-> Unset,
              client |-> FALSE, ctor_raised |-> NoErr]
    /\ chatbot = [constructed |-> FALSE, requested |-> FALSE, enable_tracing |-> FALSE]
    /\ agent = [constructed |-> FALSE, requested |-> FALSE, enable_tracing |-> FALSE]
    /\ ask = IdleAsk
    /\ run = IdleRun
    /\ direct = NoDirect
    /\ spans = <<>>
    /\ nextId = 1
    /\ sess = IdleSess
    /\ ask2 = IdleAsk
    /\ ui = IdleUi
    /\ http = IdleHttp
    /\ tmp = NoFiles

\* the module-level `langsmith_config = LangSmithConfig()`, line 83
Construct ==
    /\ ~cfg.constructed
    /\ cfg' = LangSmithConfig(env)
    /\ UNCHANGED <<env, chatbot, agent, ask, run, direct, spans, nextId, sess, ask2, ui, http, tmp>>

\* no top-level call is in progress and none waits to be taken by its caller
Quiet == /\ ask.pc = "idle" /\ run.pc = "idle" /\ direct = NoDirect
         /\ sess.pc = "idle" /\ ask2.pc = "idle"

\* the importing module went on: the constructor did not raise
Imported == cfg.constructed /\ cfg.ctor_raised = NoErr

\* a caller builds the chatbot: EnhancedQAChatbot(enable_tracing=arg).
\* A behaviour follows one component, the chatbot or an agent: the two share
\* nothing but langsmith_config, so a run with both is an interleaving of two
\* runs with one.
NewChatbot ==
    /\ Imported /\ ~chatbot.constructed /\ ~agent.constructed /\ Quiet
    /\ \E arg \in BOOLEAN : chatbot' = EnhancedQAChatbot(arg, cfg)
    /\ UNCHANGED <<env, cfg, agent, ask, run, direct, spans, nextId, sess, ask2, ui, http, tmp>>

\* a caller builds an agent: SomeAgent(enable_tracing=arg)
NewAgent ==
    /\ Imported /\ ~agent.constructed /\ ~chatbot.constructed /\ Quiet
    /\ \E arg \in BOOLEAN : agent' = EnhancedBaseAgent(arg, cfg)
    /\ UNCHANGED <<env, cfg, chatbot, ask, run, direct, spans, nextId, sess, ask2, ui, http, tmp>>

ApplyAsk(m) ==
    /\ ask' = m.f
    /\ spans' = m.spans
    /\ nextId' = m.nextId

ApplyRun(m) ==
    /\ run' = m.f
    /\ spans' = m.spans
    /\ nextId' = m.nextId

\* a caller calls chatbot.ask_question(question)
AskQuestion ==
    /\ chatbot.constructed /\ Quiet
    /\ \E q \in Questions, tf \in TransportChoices :
         ApplyAsk(ask_enter(Machine([IdleAsk EXCEPT !.question = q], spans, nextId, tf),
                            cfg, chatbot.enable_tracing))
    /\ UNCHANGED <<env, cfg, chatbot, agent, run, direct, sess, ask2, ui, http, tmp>>

\* the collaborator the ask_question frame awaits returns or raises
StageDone ==
    /\ Awaiting(ask)
    /\ \E r \in StageOutcomes(ask.pc), tf \in TransportChoices :
         ApplyAsk(ask_resume(Machine(ask, spans, nextId, tf), cfg,
                             chatbot.enable_tracing, r))
    /\ UNCHANGED <<env, cfg, chatbot, agent, run, direct, sess, ask2, ui, http, tmp>>

\* the host cancels the task while the ask_question frame awaits a collaborator
Cancel ==
    /\ Awaiting(ask)
    /\ \E tf \in TransportChoices :
         ApplyAsk(ask_resume(Machine(ask, spans, nextId, tf), cfg,
                             chatbot.enable_tracing, Cancelled(NoVal(ask.pc))))
    /\ UNCHANGED <<env, cfg, chatbot, agent, run, direct, sess, ask2, ui, http, tmp>>

ApplySess(m) ==
    /\ sess' = [m.f EXCEPT !.hist = Append(@, HistEntry(m.f))]
    /\ spans' = m.spans
    /\ nextId' = m.nextId

\* a session or custom-event call can be made: no other call is in progress
SessionReady ==
    /\ chatbot.constructed
    /\ ask.pc = "idle" /\ run.pc = "idle" /\ direct = NoDirect /\ ask2.pc = "idle"
    /\ Len(sess.hist) < MaxSessionCalls

\* a caller awaits chatbot.start_conversation_session(session_id)
StartSession ==
    /\ SessionReady
    /\ \E arg \in SuppliedIds(sess) \cup {NoId, EmptyId}, tf \in TransportChoices :
         ApplySess(start_conversation_session(
             Machine(NewSess(sess, spans, "start", arg, Unset), spans, nextId, tf),
             cfg, chatbot.enable_tracing))
    /\ UNCHANGED <<env, cfg, chatbot, agent, ask, run, direct, ask2, ui, http, tmp>>

\* a caller awaits chatbot.end_conversation_session(session_id, summary)
EndSession ==
    /\ SessionReady
    /\ \E arg \in SuppliedIds(sess), summary \in Summaries, tf \in TransportChoices :
         ApplySess(end_conversation_session(
             Machine(NewSess(sess, spans, "end", arg, summary), spans, nextId, tf),
             cfg, chatbot.enable_tracing))
    /\ UNCHANGED <<env, cfg, chatbot, agent, ask, run, direct, ask2, ui, http, tmp>>

\* a caller calls chatbot.trace_custom_event(event_name, data, session_id)
TraceEvent ==
    /\ SessionReady
    /\ \E arg \in KnownIds(sess) \cup {NoId}, tf \in TransportChoices :
         ApplySess(trace_custom_event(
             Machine(NewSess(sess, spans, "event", arg, Unset), spans, nextId, tf),
             cfg, chatbot.enable_tracing))
    /\ UNCHANGED <<env, cfg, chatbot, agent, ask, run, direct, ask2, ui, http, tmp>>

\* a caller calls agent.execute(input_data)
Execute ==
    /\ agent.constructed /\ Quiet
    /\ \E i \in Mappings, tf \in TransportChoices :
         ApplyRun(execute_enter(
             Machine([IdleRun EXCEPT !.kind = "execute", !.input = i], spans, nextId, tf),
             cfg, agent.enable_tracing))
    /\ UNCHANGED <<env, cfg, chatbot, agent, ask, direct, sess, ask2, ui, http, tmp>>

\* a caller (the agent's own _execute, as a rule) calls agent._call_llm(messages)
CallLlm ==
    /\ agent.constructed /\ Quiet
    /\ \E msgs \in MessageLists, tf \in TransportChoices :
         ApplyRun(call_llm_enter(
             Machine([IdleRun EXCEPT !.kind = "_call_llm", !.input = msgs], spans, nextId, tf),
             cfg, agent.enable_tracing))
    /\ UNCHANGED <<env, cfg, chatbot, agent, ask, direct, sess, ask2, ui, http, tmp>>

\* _execute, or llm.ainvoke, returns or raises
RunDone ==
    /\ run.pc \in {"_execute", "ainvoke"}
    /\ \E r \in RunOutcomes(run.pc), tf \in TransportChoices :
         ApplyRun(run_resume(Machine(run, spans, nextId, tf), cfg,
                             agent.enable_tracing, r))
    /\ UNCHANGED <<env, cfg, chatbot, agent, ask, direct, sess, ask2, ui, http, tmp>>

\* the host cancels the task while the agent frame awaits
RunCancel ==
    /\ run.pc \in {"_execute", "ainvoke"}
    /\ \E tf \in TransportChoices :
         ApplyRun(run_resume(Machine(run, spans, nextId, tf), cfg,
                             agent.enable_tracing, Cancelled(NoRunVal(run.pc))))
    /\ UNCHANGED <<env, cfg, chatbot, agent, ask, direct, sess, ask2, ui, http, tmp>>

DirectResult(op, run_id, r) ==
    [op |-> op, run_id |-> run_id, ret |-> r.ret, raised |-> r.raised,
     sent |-> r.sent, ok |-> r.ok, logged |-> r.logged]

\* a caller calls langsmith_config.create_run(name, inputs, run_id=...) itself
DirectCreateRun ==
    /\ Imported /\ ask.pc = "idle" /\ run.pc = "idle"
    /\ sess.pc = "idle" /\ ask2.pc = "idle"
    /\ nextId <= MaxDirect
    /\ \E fails \in BOOLEAN :
         LET r == create_run(cfg, spans, "test", nextId, NoId, fails)
         IN /\ direct' = DirectResult("create_run", nextId, r)
            /\ spans' = r.spans
    /\ nextId' = nextId + 1
    /\ UNCHANGED <<env, cfg, chatbot, agent, ask, run, sess, ask2, ui, http, tmp>>

\* a caller calls langsmith_config.end_run(run_id, outputs, error) itself
DirectEndRun ==
    /\ Imported /\ ask.pc = "idle" /\ run.pc = "idle"
    /\ sess.pc = "idle" /\ ask2.pc = "idle"
    /\ \E run_id \in 1..nextId, outputs \in {NoneValue, [test |-> "data"]},
          error \in {NoErr, "RuntimeError"}, fails \in BOOLEAN :
         LET r == end_run(cfg, spans, run_id, outputs, error, fails)
         IN /\ direct' = DirectResult("end_run", run_id, r)
            /\ spans' = r.spans
    /\ UNCHANGED <<env, cfg, chatbot, agent, ask, run, nextId, sess, ask2, ui, http, tmp>>

\* the caller takes what the finished call returned or raised. The spans of
\* the call are referred to by no one any more: they leave the model, and
\* with them their ids (ids are opaque, so the source of fresh ids restarts)
Return ==
    /\ ask.pc = "done" \/ run.pc = "done" \/ direct # NoDirect \/ sess.pc = "done"
    /\ ask2.pc \in {"idle", "done"}
    /\ ask' = IdleAsk
    /\ run' = IdleRun
    /\ direct' = NoDirect
    /\ spans' = <<>>
    /\ nextId' = 1
    /\ sess' = IdleSess
    /\ ask2' = IdleAsk
    /\ UNCHANGED <<env, cfg, chatbot, agent, ui, http, tmp>>

Next ==
    \/ Construct
    \/ NewChatbot
    \/ NewAgent
    \/ AskQuestion
    \/ StageDone
    \/ Cancel
    \/ StartSession
    \/ EndSession
    \/ TraceEvent
    \/ Execute
    \/ CallLlm
    \/ RunDone
    \/ RunCancel
    \/ DirectCreateRun
    \/ DirectEndRun
    \/ Return

Spec == Init /\ [][Next]_vars

\* ------------------------------- two ask_question calls on one chatbot
\* The two calls are tasks of one event loop: a segment of one runs while the
\* other is suspended at an await. The first call asks the first question,
\* the second the other one; the collaborators answer from ConcOutcomes and
\* the backend calls of a segment all succeed or all fail.
FirstQuestion == "What is the revenue?"
SecondQuestion == "Who audits Test Corp?"
ConcOutcomes(pc) ==
    CASE pc = "extract" -> {[err |-> NoErr, val |-> "{name: Test Corp}"],
                            [err |-> "RuntimeError", val |-> "None"]}
      [] pc = "search" -> {[err |-> NoErr, val |-> <<"doc1", "doc2">>],
                           [err |-> "LookupFailure", val |-> <<>>]}
      [] pc = "generate" -> {[err |-> NoErr, val |-> "Test answer"],
                             [err |-> NoErr, val |-> ""],
                             [err |-> "RuntimeError", val |-> "None"]}
      [] OTHER -> {}
ConcTransport == {NoFailures, [i \in 1..3 |-> TRUE]}

ApplyAsk2(m) ==
    /\ ask2' = m.f
    /\ spans' = m.spans
    /\ nextId' = m.nextId

\* a task calls chatbot.ask_question(FirstQuestion)
AskFirst ==
    /\ chatbot.constructed /\ Quiet
    /\ \E tf \in ConcTransport :
         ApplyAsk(ask_enter(Machine([IdleAsk EXCEPT !.question = FirstQuestion],
                                    spans, nextId, tf),
                            cfg, chatbot.enable_tracing))
    /\ UNCHANGED <<env, cfg, chatbot, agent, run, direct, sess, ask2, ui, http, tmp>>

\* another task calls chatbot.ask_question(SecondQuestion) once the first
\* call has started
AskSecond ==
    /\ chatbot.constructed /\ ask.pc # "idle" /\ ask2.pc = "idle"
    /\ \E tf \in ConcTransport :
         ApplyAsk2(ask_enter(Machine([IdleAsk EXCEPT !.question = SecondQuestion],
                                     spans, nextId, tf),
                             cfg, chatbot.enable_tracing))
    /\ UNCHANGED <<env, cfg, chatbot, agent, ask, run, direct, sess, ui, http, tmp>>

\* the collaborator the first call awaits returns or raises, or the host
\* cancels the first call's task
ResumeFirst ==
    /\ Awaiting(ask)
    /\ \E r \in ConcOutcomes(ask.pc) \cup {Cancelled(NoVal(ask.pc))},
          tf \in ConcTransport :
         ApplyAsk(ask_resume(Machine(ask, spans, nextId, tf), cfg,
                             chatbot.enable_tracing, r))
    /\ UNCHANGED <<env, cfg, chatbot, agent, run, direct, sess, ask2, ui, http, tmp>>

\* the collaborator the second call awaits returns or raises
ResumeSecond ==
    /\ Awaiting(ask2)
    /\ \E r \in ConcOutcomes(ask2.pc), tf \in ConcTransport :
         ApplyAsk2(ask_resume(Machine(ask2, spans, nextId, tf), cfg,
                              chatbot.enable_tracing, r))
    /\ UNCHANGED <<env, cfg, chatbot, agent, ask, run, direct, sess, ui, http, tmp>>

NextConcurrent ==
    \/ Construct
    \/ NewChatbot
    \/ AskFirst
    \/ AskSecond
    \/ ResumeFirst
    \/ ResumeSecond
    \/ Return

SpecConcurrent == Init /\ [][NextConcurrent]_vars

\* ------------------------------------------------- a call run on its own
\* An ask_question call run to its end from a fresh sink, with tracing et,
\* no transport failure, and the awaits answered by rs in turn
\* v, then F on the value it gave (the statement after an assignment)
The(S) == CHOOSE v \in S : TRUE
Bind(v, F(_)) == The({F(b) : b \in {v}})

RECURSIVE RunAsk(_, _, _, _)
RunAsk(m, c, et, rs) ==
    Bind(m, LAMBDA b :
        IF Awaiting(b.f) /\ Len(b.f.results) < Len(rs)
        THEN RunAsk(ask_resume([b EXCEPT !.k = 1], c, et, rs[Len(b.f.results) + 1]),
                    c, et, rs)
        ELSE b)

AskAlone(q, c, et, rs) ==
    RunAsk(ask_enter(Machine([IdleAsk EXCEPT !.question = q], <<>>, 1, NoFailures),
                     c, et),
           c, et, rs).f

\* likewise an execute or _call_llm call
RunAlone(kind, input, c, et, rs) ==
    LET m0 == Machine([IdleRun EXCEPT !.kind = kind, !.input = input], <<>>, 1,
                      NoFailures)
        m1 == IF kind = "execute" THEN execute_enter(m0, c, et)
              ELSE call_llm_enter(m0, c, et)
    IN IF m1.f.pc \in {"_execute", "ainvoke"} /\ Len(rs) > 0
       THEN run_resume([m1 EXCEPT !.k = 1], c, et, rs[1]).f
       ELSE m1.f

\* ------------------------------------------------------------- app.py
\* the state a page run or a request handler works on
World(u, h, cb, sp, id, t) ==
    [ui |-> u, http |-> h, chatbot |-> cb, spans |-> sp, nextId |-> id, tmp |-> t]

\* how EnhancedQAChatbot() and DocumentProcessor() can end at initialization
ServiceOutcomes == {"ok", "chatbot_fails", "processor_fails"}
\* how document_processor.process_document can end: a result with success
\* true or false, or a raise
ProcessOutcomes == {[err |-> NoErr, success |-> TRUE],
                    [err |-> NoErr, success |-> FALSE],
                    [err |-> "RuntimeError", success |-> FALSE]}
\* the collaborator answers of one ask_question call, stage by stage
AppOk == <<[err |-> NoErr, val |-> "{name: Test Corp}"],
           [err |-> NoErr, val |-> <<"doc1", "doc2">>],
           [err |-> NoErr, val |-> "Test answer"]>>
AppResults == {AppOk,
               [AppOk EXCEPT ![1] = [err |-> "RuntimeError", val |-> "None"]],
               [AppOk EXCEPT ![2] = [err |-> "LookupFailure", val |-> <<>>]],
               [AppOk EXCEPT ![3] = [err |-> "RuntimeError", val |-> "None"]]}

\* tempfile.NamedTemporaryFile(delete=False): a new file that stays on disk
NamedTemporaryFile(t) ==
    [created |-> t.created + 1, existing |-> t.existing \cup {t.created + 1}]
\* os.unlink(path)
unlink(t, path) == [t EXCEPT !.existing = @ \ {path}]

\* init_session_state, app.py 27-40
init_session_state(w, c) ==
    IF w.ui.initialized THEN w
    ELSE [w EXCEPT !.ui.initialized = TRUE,
                   !.ui.langsmith_enabled = is_enabled(c)]

\* initialize_services, app.py 51-69: build what is missing; False when a
\* constructor raises
ui_initialize_services(w, c, outcome) ==
    IF ~w.chatbot.constructed /\ outcome = "chatbot_fails"
    THEN [w EXCEPT !.ui.ready = FALSE]
    ELSE LET w1 == IF ~w.chatbot.constructed
                   THEN [w EXCEPT !.chatbot =
                             EnhancedQAChatbot(w.ui.langsmith_enabled, c)]
                   ELSE w
         IN IF ~w1.ui.document_processor /\ outcome = "processor_fails"
            THEN [w1 EXCEPT !.ui.ready = FALSE]
            ELSE [w1 EXCEPT !.ui.document_processor = TRUE, !.ui.ready = TRUE]

\* a session or custom-event call made by a caller that keeps no frame
SessionCall(w, c, op, arg, summary, tf) ==
    LET m0 == Machine(NewSess(IdleSess, w.spans, op, arg, summary),
                      w.spans, w.nextId, tf)
    IN CASE op = "start" -> start_conversation_session(m0, c, w.chatbot.enable_tracing)
         [] op = "end" -> end_conversation_session(m0, c, w.chatbot.enable_tracing)
         [] OTHER -> trace_custom_event(m0, c, w.chatbot.enable_tracing)

\* Reset Session with the old session left as it is
ui_end_conversation_session_skipped(w, c, tf) ==
    w

\* start_conversation_session, app.py 71-83
ui_start_conversation_session(w, c, tf) ==
    IF w.chatbot.constructed /\ w.ui.langsmith_enabled
    THEN Bind(SessionCall(w, c, "start", NoId, Unset, tf), LAMBDA m :
            LET w1 == [w EXCEPT !.spans = m.spans, !.nextId = m.nextId]
            IN IF m.f.outcome = "returned"
               THEN [w1 EXCEPT !.ui.session_id = m.f.result,
                               !.ui.started = @ \cup {m.f.result},
                               !.ui.over = @ \cup {w.ui.session_id}]
               ELSE w1)
    ELSE w

\* end_conversation_session, app.py 85-99
ui_end_conversation_session(w, c, tf) ==
    IF ~no_session_id(w.ui.session_id) /\ w.chatbot.constructed
    THEN LET summary == "Session with " \o ToString(Len(w.ui.conversation_history))
                            \o " interactions"
         IN Bind(SessionCall(w, c, "end", w.ui.session_id, summary, tf), LAMBDA m :
                LET w1 == [w EXCEPT !.spans = m.spans, !.nextId = m.nextId,
                                    !.ui.ended = @ \cup {w.ui.session_id}]
                IN IF m.f.outcome = "returned"
                   THEN [w1 EXCEPT !.ui.session_id = NoId]
                   ELSE w1)
    ELSE w

\* main, app.py 292-304: the start of every page run
ui_main(w, c, event, outcome, tf) ==
    LET w0 == [w EXCEPT !.ui.rerun = FALSE,
                        !.ui.last = [NoRun EXCEPT !.event = event,
                                                  !.before = w.ui.conversation_history]]
    IN Bind(init_session_state(w0, c), LAMBDA s0 :
       Bind(ui_initialize_services(s0, c, outcome), LAMBDA w1 :
          IF ~w1.ui.ready THEN w1
          ELSE IF w1.ui.langsmith_enabled /\ no_session_id(w1.ui.session_id)
          THEN ui_start_conversation_session(w1, c, tf)
          ELSE w1))

\* display_langsmith_status, app.py 115-119: the Reset Session button
ui_reset_session(w, c, tf) ==
    Bind(ui_end_conversation_session(w, c, tf), LAMBDA w1 :
    Bind([w1 EXCEPT !.ui.conversation_history = <<>>], LAMBDA w2 :
    Bind(ui_start_conversation_session(w2, c, tf), LAMBDA w3 :
        [w3 EXCEPT !.ui.rerun = TRUE])))

\* main, app.py 323-328: the Clear All Data button
ui_clear_all_data(w, c, tf) ==
    Bind([w EXCEPT !.ui.conversation_history = <<>>,
                   !.ui.processed_documents = <<>>], LAMBDA w1 :
    Bind(ui_end_conversation_session(w1, c, tf), LAMBDA w2 :
    Bind(ui_start_conversation_session(w2, c, tf), LAMBDA w3 :
        [w3 EXCEPT !.ui.rerun = TRUE])))

\* handle_document_upload, app.py 146-193, for an uploaded file
handle_document_upload(w, c, filename, p, tf) ==
    LET t1 == NamedTemporaryFile(w.tmp)
        tmp_file_path == t1.created
    IN Bind([w EXCEPT !.tmp = t1, !.ui.last.file = tmp_file_path], LAMBDA w1 :
       IF ~w1.ui.document_processor
       THEN [w1 EXCEPT !.tmp = unlink(@, tmp_file_path)]
       ELSE IF p.err # NoErr
       THEN [w1 EXCEPT !.ui.last.processing = "raised", !.ui.last.exc = p.err]
       ELSE IF p.success
       THEN Bind([w1 EXCEPT !.ui.processed_documents = Append(@, filename),
                            !.ui.last.processing = "success"], LAMBDA w2 :
            IF w2.ui.langsmith_enabled /\ w2.chatbot.constructed
            THEN Bind(SessionCall(w2, c, "event", w2.ui.session_id, Unset, tf),
                      LAMBDA m : [w2 EXCEPT !.spans = m.spans, !.nextId = m.nextId,
                                            !.tmp = unlink(@, tmp_file_path)])
            ELSE [w2 EXCEPT !.tmp = unlink(@, tmp_file_path)])
       ELSE [w1 EXCEPT !.ui.last.processing = "failure",
                       !.tmp = unlink(@, tmp_file_path)])

\* the record handle_qa_chatbot appends to the history, app.py 225-231
HistoryRecord(user_question, result) ==
    [question |-> user_question, answer |-> result.answer,
     company_info |-> result.company_info, sources |-> result.sources,
     timestamp |-> "time.time()"]

\* the ask_question call of a handler: chatbot.ask_question run to its end
AskCall(w, c, question, rs, tf) ==
    RunAsk(ask_enter(Machine([IdleAsk EXCEPT !.question = question],
                             w.spans, w.nextId, tf), c, w.chatbot.enable_tracing),
           c, w.chatbot.enable_tracing, rs)

\* handle_qa_chatbot appending a record whatever the call gave
handle_qa_chatbot_always_appends(w, c, user_question, rs, tf) ==
    Bind(AskCall(w, c, user_question, rs, tf), LAMBDA m :
        [w EXCEPT !.spans = m.spans, !.nextId = m.nextId,
                  !.ui.last.asked = TRUE,
                  !.ui.last.outcome = m.f.outcome,
                  !.ui.last.exc = m.f.exc,
                  !.ui.last.result = m.f.result,
                  !.ui.conversation_history =
                      Append(@, HistoryRecord(user_question,
                                 IF m.f.outcome = "returned" THEN m.f.result
                                 ELSE [answer |-> "None", company_info |-> "None",
                                       sources |-> <<>>])),
                  !.ui.rerun = TRUE])

\* handle_qa_chatbot, app.py 215-249, for a question typed in
handle_qa_chatbot(w, c, user_question, rs, tf) ==
    IF ~w.chatbot.constructed THEN w
    ELSE Bind(AskCall(w, c, user_question, rs, tf), LAMBDA m :
            LET w1 == [w EXCEPT !.spans = m.spans, !.nextId = m.nextId,
                                !.ui.last.asked = TRUE,
                                !.ui.last.outcome = m.f.outcome,
                                !.ui.last.exc = m.f.exc,
                                !.ui.last.result = m.f.result]
            IN IF m.f.outcome = "returned"
               THEN [w1 EXCEPT !.ui.conversation_history =
                                   Append(@, HistoryRecord(user_question, m.f.result)),
                               !.ui.rerun = TRUE]
               ELSE w1)

TheWorld == World(ui, http, chatbot, spans, nextId, tmp)

\* how the constructors can end in a page run: they run only while a
\* service is missing
UiServiceChoices ==
    IF chatbot.constructed /\ ui.document_processor THEN {"ok"} ELSE ServiceOutcomes

ApplyWorld(w) ==
    /\ ui' = w.ui
    /\ http' = w.http
    /\ chatbot' = w.chatbot
    /\ spans' = w.spans
    /\ nextId' = w.nextId
    /\ tmp' = w.tmp
    /\ UNCHANGED <<env, cfg, agent, ask, run, direct, sess, ask2>>

\* the browser session of the UI can run the page: this process is the UI
UiReady == Imported /\ ~http.started /\ ~agent.constructed

\* the user makes an event that reruns the page: none is pending
UiEventReady == UiReady /\ ~ui.rerun /\ ui.events < MaxEvents

\* a page run without a user event (the first one, or a rerun)
UiView ==
    /\ UiReady
    /\ \E outcome \in UiServiceChoices, tf \in ConcTransport :
         \E w1 \in {ui_main(TheWorld, cfg, "view", outcome, tf)} : ApplyWorld(w1)

\* the user presses Reset Session
UiReset ==
    /\ UiEventReady
    /\ \E outcome \in UiServiceChoices, tf \in ConcTransport :
         \E w1 \in {ui_main(TheWorld, cfg, "reset", outcome, tf)} :
         \E w2 \in {[w1 EXCEPT !.ui.events = @ + 1]} :
         \E w3 \in {IF w1.ui.ready THEN ui_reset_session(w2, cfg, tf) ELSE w1} :
            ApplyWorld(w3)

\* the user presses Clear All Data
UiClear ==
    /\ UiEventReady
    /\ \E outcome \in UiServiceChoices, tf \in ConcTransport :
         \E w1 \in {ui_main(TheWorld, cfg, "clear", outcome, tf)} :
         \E w2 \in {[w1 EXCEPT !.ui.events = @ + 1]} :
         \E w3 \in {IF w1.ui.ready THEN ui_clear_all_data(w2, cfg, tf) ELSE w1} :
            ApplyWorld(w3)

\* the user uploads a document
UiUpload ==
    /\ UiEventReady
    /\ \E outcome \in UiServiceChoices, tf \in ConcTransport, p \in ProcessOutcomes :
         \E w1 \in {ui_main(TheWorld, cfg, "upload", outcome, tf)} :
         \E w2 \in {[w1 EXCEPT !.ui.events = @ + 1]} :
         \E w3 \in {IF w1.ui.ready
                     THEN handle_document_upload(w2, cfg, "report.pdf", p, tf)
                     ELSE w1} :
            ApplyWorld(w3)

\* the user types a question in
UiAsk ==
    /\ UiEventReady
    /\ \E outcome \in UiServiceChoices, tf \in ConcTransport,
          q \in Questions, rs \in AppResults :
         \E w1 \in {ui_main(TheWorld, cfg, "ask", outcome, tf)} :
         \E w2 \in {[w1 EXCEPT !.ui.events = @ + 1]} :
         \E w3 \in {IF w1.ui.ready THEN handle_qa_chatbot(w2, cfg, q, rs, tf) ELSE w1} :
            ApplyWorld(w3)

\* ------------------------------------------------------------ main.py
\* names of uploaded files with their Path(...).suffix; "" is no file name
Filenames == {[name |-> "", suffix |-> ""],
              [name |-> "report.pdf", suffix |-> ".pdf"],
              [name |-> "REPORT.PDF", suffix |-> ".PDF"],
              [name |-> "notes.exe", suffix |-> ".exe"]}
\* str.lower() on the suffixes of Filenames
suffix_lower(suffix) ==
    CASE suffix = ".PDF" -> ".pdf"
      [] OTHER -> suffix
allowed_extensions == {".pdf", ".docx", ".xlsx", ".txt"}

\* how `await file.read()` can end
ReadOutcomes == {"ok", "raises"}

\* raise HTTPException(status_code, detail)
HTTPException(status_code, detail) ==
    [type |-> "HTTPException", status_code |-> status_code, detail |-> detail]
\* an exception of another class raised in a handler
Failure(type) == [type |-> type, status_code |-> 0, detail |-> type]
\* classes `except Exception` catches: all but those derived from
\* BaseException alone
CaughtByExceptException(e) == IsException(e.type)

\* the `except Exception as e` clause of the three handlers (155-157,
\* 184-186, 199-201): any exception caught becomes an HTTPException(500)
handler_except(e, prefix) ==
    IF CaughtByExceptException(e) THEN HTTPException(500, prefix) ELSE e

\* the parameters of EnhancedQAChatbot.ask_question after self
\* (services/enhanced_qa_chatbot.py, 27), and those without a default
AskQuestionParameters == {"question", "conversation_history"}
AskQuestionRequired == {"question"}
\* the keywords chat passes to it, main.py 172-175
ChatKeywords == {"question", "session_id"}
\* binding keyword arguments to a signature: TypeError on an unexpected
\* keyword or a missing required parameter
bind(parameters, required, keywords) ==
    IF keywords \subseteq parameters /\ required \subseteq keywords
    THEN NoErr
    ELSE "TypeError"

\* initialize_services, main.py 68-87, called by startup_event (89-92)
http_initialize_services(w, c, outcome) ==
    LET w0 == [w EXCEPT !.http.started = TRUE,
                        !.http.langsmith_enabled = is_enabled(c)]
    IN IF ~w0.chatbot.constructed /\ outcome = "chatbot_fails"
       THEN w0
       ELSE LET w1 == IF ~w0.chatbot.constructed
                      THEN [w0 EXCEPT !.chatbot =
                                EnhancedQAChatbot(w0.http.langsmith_enabled, c)]
                      ELSE w0
            IN IF ~w1.http.document_processor /\ outcome = "processor_fails"
               THEN w1
               ELSE [w1 EXCEPT !.http.document_processor = TRUE]

\* the response to a request whose handler raised e (FastAPI answers an
\* HTTPException with its status code)
Rejected(w, e) ==
    [w EXCEPT !.http.last.status = e.status_code, !.http.last.detail = e.detail]

\* upload_document, main.py 104-157
upload_document(w, c, file, rd, p) ==
    LET w0 == [w EXCEPT !.http.requests = @ + 1,
                        !.http.last = [NoRequest EXCEPT
                                          !.op = "upload",
                                          !.filename = file.name,
                                          !.extension = suffix_lower(file.suffix),
                                          !.chatbot_ready = w.chatbot.constructed]]
        prefix == "Document processing failed"
        file_extension == suffix_lower(file.suffix)
        t1 == NamedTemporaryFile(w0.tmp)
        temp_file_path == t1.created
        w1 == [w0 EXCEPT !.tmp = t1, !.http.last.file = temp_file_path,
                         !.http.last.read = rd]
        w2 == [w1 EXCEPT !.tmp = unlink(@, temp_file_path)]
    IN IF file.name = ""
       THEN Rejected(w0, handler_except(HTTPException(400, "No file selected"), prefix))
       ELSE IF file_extension \notin allowed_extensions
       THEN Rejected(w0, handler_except(HTTPException(400, "File type not supported"),
                                        prefix))
       ELSE IF rd = "raises"
       THEN Rejected(w1, handler_except(Failure("IOError"), prefix))
       ELSE IF ~w2.http.document_processor
       THEN Rejected([w2 EXCEPT !.http.last.processing = "none"],
                     handler_except(HTTPException(500, "Document processor not initialized"),
                                    prefix))
       ELSE IF p.err # NoErr
       THEN Rejected([w2 EXCEPT !.http.last.processing = "raised"],
                     handler_except(Failure(p.err), prefix))
       ELSE [w2 EXCEPT !.http.last.processing =
                           IF p.success THEN "success" ELSE "failure",
                       !.http.last.status = 200,
                       !.http.last.detail = "completed"]

\* chat, main.py 159-186
chat(w, c, question, session_arg, rs, tf) ==
    LET w0 == [w EXCEPT !.http.requests = @ + 1,
                        !.http.last = [NoRequest EXCEPT
                                          !.op = "chat",
                                          !.question = question,
                                          !.answers = rs,
                                          !.session_arg = session_arg,
                                          !.chatbot_ready = w.chatbot.constructed]]
        prefix == "Chat processing failed"
        started == no_session_id(session_arg)
        bound == bind(AskQuestionParameters, AskQuestionRequired, ChatKeywords)
    IN IF ~w0.chatbot.constructed
       THEN Rejected(w0, handler_except(HTTPException(500, "Chatbot service not initialized"),
                                        prefix))
       ELSE
       Bind(IF started THEN SessionCall(w0, c, "start", NoId, Unset, tf)
            ELSE Machine(IdleSess, w0.spans, w0.nextId, tf), LAMBDA ms :
       Bind([w0 EXCEPT !.spans = ms.spans, !.nextId = ms.nextId], LAMBDA w1 :
       IF started /\ ms.f.outcome # "returned"
       THEN Rejected(w1, handler_except(Failure(ms.f.exc), prefix))
       ELSE
       Bind([w1 EXCEPT !.http.last.session_id =
                           IF started THEN ms.f.result ELSE session_arg], LAMBDA w2 :
       IF bound # NoErr
       THEN Rejected(w2, handler_except(Failure(bound), prefix))
       ELSE
       Bind(AskCall(w2, c, question, rs, tf), LAMBDA m :
       Bind([w2 EXCEPT !.spans = m.spans, !.nextId = m.nextId,
                       !.http.last.pipeline = m.f.outcome,
                       !.http.last.stages = m.f.calls], LAMBDA w3 :
       IF m.f.outcome # "returned"
       THEN Rejected(w3, handler_except(Failure(m.f.exc), prefix))
       ELSE [w3 EXCEPT !.http.last.status = 200,
                       !.http.last.answer = m.f.result.answer,
                       !.http.last.sources = m.f.result.sources])))))

\* end_session, main.py 188-201
end_session(w, c, session_id, tf) ==
    LET w0 == [w EXCEPT !.http.requests = @ + 1,
                        !.http.last = [NoRequest EXCEPT
                                          !.op = "end_session",
                                          !.session_arg = session_id,
                                          !.chatbot_ready = w.chatbot.constructed]]
        prefix == "Session end failed"
    IN IF w0.chatbot.constructed /\ ~no_session_id(session_id)
       THEN Bind(SessionCall(w0, c, "end", session_id, "Session ended for user", tf),
                 LAMBDA m :
            Bind([w0 EXCEPT !.spans = m.spans, !.nextId = m.nextId], LAMBDA w1 :
            IF m.f.outcome = "returned"
            THEN [w1 EXCEPT !.http.last.status = 200,
                            !.http.last.detail = "Session ended successfully",
                            !.http.last.session_id = session_id]
            ELSE Rejected(w1, handler_except(Failure(m.f.exc), prefix))))
       ELSE Rejected(w0, handler_except(
                HTTPException(400, "Invalid session or chatbot not initialized"),
                prefix))

\* the server starts: this process is the HTTP API
HttpStartup ==
    /\ Imported /\ ~http.started /\ ~ui.initialized /\ ~agent.constructed
    /\ \E outcome \in ServiceOutcomes :
         \E w1 \in {http_initialize_services(TheWorld, cfg, outcome)} : ApplyWorld(w1)

HttpReady == http.started /\ http.requests < MaxEvents

\* the session ids a client can send: none, the empty string, one of its
\* own, or one a chat response gave it
ClientIds == {NoId, EmptyId, CallerId}
             \cup (IF http.last.status = 200 THEN {http.last.session_id} ELSE {})

\* POST /upload
HttpUpload ==
    /\ HttpReady
    /\ \E file \in Filenames, rd \in ReadOutcomes, p \in ProcessOutcomes :
         \E w1 \in {upload_document(TheWorld, cfg, file, rd, p)} : ApplyWorld(w1)

\* POST /chat
HttpChat ==
    /\ HttpReady
    /\ \E q \in Questions, id \in ClientIds, rs \in AppResults, tf \in ConcTransport :
         \E w1 \in {chat(TheWorld, cfg, q, id, rs, tf)} : ApplyWorld(w1)

\* POST /end-session
HttpEndSession ==
    /\ HttpReady
    /\ \E id \in ClientIds \ {NoId}, tf \in ConcTransport :
         \E w1 \in {end_session(TheWorld, cfg, id, tf)} : ApplyWorld(w1)

NextApps ==
    \/ Construct
    \/ UiView
    \/ UiReset
    \/ UiClear
    \/ UiUpload
    \/ UiAsk
    \/ HttpStartup
    \/ HttpUpload
    \/ HttpChat
    \/ HttpEndSession

\* the environments the two apps are started in: tracing configured, not
\* configured, and configured with a client that cannot be built
AppEnvironments ==
    {[LANGSMITH_TRACING |-> "true", LANGSMITH_API_KEY |-> "test-key", client_raises |-> FALSE],
     [LANGSMITH_TRACING |-> Unset, LANGSMITH_API_KEY |-> Unset, client_raises |-> FALSE],
     [LANGSMITH_TRACING |-> "true", LANGSMITH_API_KEY |-> "test-key", client_raises |-> TRUE]}

InitApps == Init /\ env \in AppEnvironments

SpecApps == InitApps /\ [][NextApps]_vars

\* --------------------------------------------------------------- helpers
AskDone == ask.pc = "done"
RunFinished == run.pc = "done"
Creates(f) == {i \in DOMAIN f.sinkLog : f.sinkLog[i].op = "create"}
Ends(f) == {i \in DOMAIN f.sinkLog : f.sinkLog[i].op = "end"}
EndsOf(f, id) == {i \in Ends(f) : f.sinkLog[i].run_id = id}
StageNames == <<"extract", "search", "generate">>
StageSpans == <<"company_extraction", "document_search", "answer_generation">>
ChildIds(f) == <<f.company_extraction_run_id, f.document_search_run_id,
                 f.answer_generation_run_id>>
AllSucceeded(f) == \A n \in DOMAIN f.results : f.results[n].err = NoErr
ExchangeKeys == {"question", "answer", "company_info", "sources", "document_count"}

\* ------------------------------------------------------------------ C1
\* C1: in ask_question, with tracing on or off, once the collaborator of
\* stage N has raised, no collaborator of a later stage is invoked, no span
\* of a later stage is created, no exchange record is returned, and the call
\* raises the very error the stage raised.
C1_FirstFailurePassesThrough ==
    \A n \in DOMAIN ask.results :
        ask.results[n].err # NoErr =>
            /\ Len(ask.calls) = n
            /\ \A i \in Creates(ask) :
                   \A k \in (n + 1)..3 : ask.sinkLog[i].name # StageSpans[k]
            /\ ask.pc = "done"
            /\ ask.outcome = "raised"
            /\ ask.result = NoneValue
            /\ ask.exc = ask.results[n].err

C1_Witness ==
    /\ AskDone /\ chatbot.enable_tracing
    /\ Len(ask.results) = 2 /\ ask.results[2].err \in Errors
    /\ ask.outcome = "raised"

\* ------------------------------------------------------------------ C2
\* C2 as claimed: when ask_question, execute or _call_llm has finished, every
\* span it opened in the sink has a terminal record.
C2_NoOrphanedSpans ==
    /\ AskDone =>
         \A i \in Creates(ask) :
             ask.sinkLog[i].ok => ~spans[ask.sinkLog[i].run_id].open
    /\ RunFinished =>
         \A i \in Creates(run) :
             run.sinkLog[i].ok => ~spans[run.sinkLog[i].run_id].open

\* a finished frame issued exactly one end_run for each create_run it issued,
\* and a span it opened is still open only if that end_run's backend call failed
ClosesIssued(f) ==
    \A i \in Creates(f) :
        LET id == f.sinkLog[i].run_id
        IN /\ Cardinality(EndsOf(f, id)) = 1
           /\ \A j \in EndsOf(f, id) :
                  /\ j > i
                  /\ (f.sinkLog[i].ok /\ spans[id].open) => ~f.sinkLog[j].ok

\* C2 amended: when ask_question, execute or _call_llm has finished by
\* returning or by raising an Exception (not by a cancellation), it has issued
\* exactly one end_run for every span id it issued create_run for; a span it
\* opened is left without a terminal record only if that end_run's backend
\* call failed.
C2_EverySpanGetsItsClose ==
    /\ (AskDone /\ ask.exc # CancelledError) => ClosesIssued(ask)
    /\ (RunFinished /\ run.exc # CancelledError) => ClosesIssued(run)

C2_Witness ==
    /\ AskDone /\ ask.outcome = "raised" /\ IsException(ask.exc)
    /\ Len(ask.sinkLog) = 6
    /\ \A i \in DOMAIN ask.sinkLog : ask.sinkLog[i].ok
    /\ \A id \in DOMAIN spans : ~spans[id].open

\* ------------------------------------------------------------------ C3
\* C3: whatever backend calls fail, create_run and end_run raise nothing to
\* their caller, and a traced ask_question whose collaborators all succeed
\* runs all three stages and returns the exchange record it returns when no
\* backend call fails.
C3_TransportFailuresStayInside ==
    /\ \A i \in DOMAIN ask.sinkLog : ask.sinkLog[i].raised = NoErr
    /\ \A i \in DOMAIN run.sinkLog : run.sinkLog[i].raised = NoErr
    /\ direct # NoDirect => direct.raised = NoErr
    /\ (AskDone /\ chatbot.enable_tracing /\ AllSucceeded(ask)) =>
           /\ Len(ask.results) = 3
           /\ [n \in 1..3 |-> ask.calls[n].stage] = StageNames
           /\ ask.outcome = "returned"
           /\ ask.result = AskAlone(ask.question, cfg, TRUE, ask.results).result

C3_Witness ==
    /\ AskDone /\ chatbot.enable_tracing /\ ask.outcome = "returned"
    /\ \A i \in DOMAIN ask.sinkLog : ~ask.sinkLog[i].ok

\* ------------------------------------------------------------------ C4
\* C4: a returned exchange record holds the input question, extraction's
\* result, search's result in its order, generation's result, and
\* document_count = the length of sources; an empty search result is no
\* error and gives document_count = 0.
C4_ExchangeRecord ==
    (AskDone /\ ask.outcome = "returned") =>
        /\ Len(ask.results) = 3
        /\ AllSucceeded(ask)
        /\ ask.result.question = ask.question
        /\ ask.result.company_info = ask.results[1].val
        /\ ask.result.sources = ask.results[2].val
        /\ ask.result.answer = ask.results[3].val
        /\ ask.result.document_count = Len(ask.result.sources)
        /\ (ask.results[2].val = <<>> => ask.result.document_count = 0)

C4_Witness ==
    /\ AskDone /\ ask.outcome = "returned"
    /\ ask.results[2].val = <<>> /\ ask.result.document_count = 0

\* ------------------------------------------------------------------ C5
\* C5: tracing is a side channel. A finished ask_question call, and a
\* finished execute call, made the collaborator calls (same order, same
\* arguments) and has the outcome (the same returned value or the same raised
\* error) of the same call run with tracing off on the same collaborator
\* answers.
C5_TracingIsASideChannel ==
    /\ AskDone =>
         LET u == AskAlone(ask.question, cfg, FALSE, ask.results)
         IN /\ u.pc = "done"
            /\ ask.calls = u.calls
            /\ ask.outcome = u.outcome
            /\ ask.exc = u.exc
            /\ ask.result = u.result
    /\ (RunFinished /\ run.kind = "execute") =>
         LET u == RunAlone("execute", run.input, cfg, FALSE, run.results)
         IN /\ u.pc = "done"
            /\ run.calls = u.calls
            /\ run.outcome = u.outcome
            /\ run.exc = u.exc
            /\ run.result = u.result

C5_Witness ==
    /\ AskDone /\ chatbot.enable_tracing
    /\ ask.outcome = "raised" /\ ask.exc \in Errors
    /\ \E i \in DOMAIN ask.sinkLog : ~ask.sinkLog[i].ok

\* ------------------------------------------------------------------ C6
\* C6: in a traced ask_question, end_run is called at most once per span id
\* and with outputs or with an error, never both and never neither; the
\* child span of a stage is closed with outputs if the collaborator returned
\* and with its error if it failed; the root span is closed with outputs if
\* all three stages succeeded and with the failing stage's error otherwise.
C6_OneCloseOutputsXorError ==
    chatbot.enable_tracing =>
        /\ \A i \in Ends(ask) :
               /\ EndsOf(ask, ask.sinkLog[i].run_id) = {i}
               /\ (ask.sinkLog[i].outputs # NoneValue) # (ask.sinkLog[i].error # NoErr)
        /\ \A n \in DOMAIN ask.results :
               LET r == ask.results[n]
                   id == ChildIds(ask)[n]
               IN /\ r.err = NoErr =>
                        \E i \in EndsOf(ask, id) :
                            /\ ask.sinkLog[i].outputs # NoneValue
                            /\ ask.sinkLog[i].error = NoErr
                  /\ IsException(r.err) =>
                        /\ \E i \in EndsOf(ask, id) :
                               /\ ask.sinkLog[i].outputs = NoneValue
                               /\ ask.sinkLog[i].error = r.err
                        /\ \E i \in EndsOf(ask, ask.run_id) :
                               /\ ask.sinkLog[i].outputs = NoneValue
                               /\ ask.sinkLog[i].error = r.err
        /\ (AskDone /\ Len(ask.results) = 3 /\ AllSucceeded(ask)) =>
               \E i \in EndsOf(ask, ask.run_id) :
                   /\ ask.sinkLog[i].outputs # NoneValue
                   /\ ask.sinkLog[i].error = NoErr

C6_Witness ==
    /\ AskDone /\ chatbot.enable_tracing
    /\ Len(ask.results) = 3 /\ ask.results[3].err \in Errors
    /\ Cardinality(Ends(ask)) = 4

\* ------------------------------------------------------------------ C7
\* C7: when a traced ask_question returns, the outputs it gave end_run for the
\* root span are the returned exchange record: the five keys question,
\* answer, company_info, sources, document_count with the returned values.
C7_RootOutputsAreTheExchange ==
    (AskDone /\ chatbot.enable_tracing /\ ask.outcome = "returned") =>
        /\ DOMAIN ask.result = ExchangeKeys
        /\ Cardinality(EndsOf(ask, ask.run_id)) = 1
        /\ \A i \in EndsOf(ask, ask.run_id) :
               /\ DOMAIN ask.sinkLog[i].outputs = ExchangeKeys
               /\ ask.sinkLog[i].outputs = ask.result

C7_Witness ==
    /\ AskDone /\ chatbot.enable_tracing /\ ask.outcome = "returned"
    /\ ask.result.document_count = 2
    /\ \E i \in EndsOf(ask, ask.run_id) : ask.sinkLog[i].ok

\* ------------------------------------------------------------------ C8
\* C8: the stages of an ask_question call are strictly sequential: each
\* collaborator is invoked at most once and in the order extraction, search,
\* generation; search starts after extraction returned and gets its result,
\* generation starts after search returned and gets search's and
\* extraction's results; at most one stage is in flight.
C8_StagesSequential ==
    /\ Len(ask.calls) <= 3
    /\ \A n \in DOMAIN ask.calls : ask.calls[n].stage = StageNames[n]
    /\ Len(ask.results) <= Len(ask.calls)
    /\ Len(ask.calls) <= Len(ask.results) + 1
    /\ Awaiting(ask) <=> Len(ask.calls) = Len(ask.results) + 1
    /\ \A n \in DOMAIN ask.calls :
           /\ \A k \in 1..(n - 1) : ask.results[k].err = NoErr
           /\ n = 1 => ask.calls[n].args = <<ask.question>>
           /\ n = 2 => ask.calls[n].args = <<ask.results[1].val, ask.question>>
           /\ n = 3 => ask.calls[n].args =
                           <<ask.question, ask.results[2].val, ask.results[1].val>>

C8_Witness ==
    /\ ask.pc = "generate" /\ Len(ask.calls) = 3 /\ Len(ask.results) = 2
    /\ Len(ask.results[2].val) = 2

\* ------------------------------------------------------------------ C9
\* C9: with the sink disabled (flag false or no client), a create_run call
\* returns None and an end_run call returns without effect: neither raises,
\* calls the backend client, logs an error or changes a span, whatever the
\* arguments and whatever calls came before.
SinkDisabled == ~cfg.enabled \/ ~cfg.client

C9_DisabledSinkIsANoOp ==
    (Imported /\ SinkDisabled) =>
        /\ spans = <<>>
        /\ direct # NoDirect =>
               /\ direct.ret = NoId
               /\ direct.raised = NoErr
               /\ ~direct.sent
               /\ ~direct.logged

C9_Witness ==
    /\ Imported /\ SinkDisabled
    /\ direct # NoDirect /\ direct.op = "end_run" /\ direct.run_id < nextId

\* ------------------------------------------------------------------ C10
RequestedExactly == env.LANGSMITH_TRACING = "true"
RequestedAnyCase == env.LANGSMITH_TRACING \in {"true", "TRUE"}
KeySet == env.LANGSMITH_API_KEY \notin {Unset, ""}

Downgrades(requested) ==
    /\ cfg.constructed =>
         /\ cfg.ctor_raised = NoErr
         /\ is_enabled(cfg) => (requested /\ KeySet /\ ~env.client_raises)
         /\ (requested /\ ~KeySet) => (~is_enabled(cfg) /\ ~cfg.client)
         /\ (requested /\ KeySet /\ env.client_raises) =>
                (~is_enabled(cfg) /\ ~cfg.client)
    /\ is_enabled(cfg) => cfg.client

\* C10 as claimed: constructing the configuration never raises; is_enabled()
\* is true only if LANGSMITH_TRACING equals "true", an API key is set and
\* the client was built; requested without a key, or with a failing client
\* initialization, it is false and there is no client; is_enabled() implies
\* a client.
C10_DowngradesExactTrue == Downgrades(RequestedExactly)

\* C10 amended: the same, with tracing requested when LANGSMITH_TRACING
\* equals "true" after lowercasing ("TRUE" and "True" request it too).
C10_DowngradesAnyCase == Downgrades(RequestedAnyCase)

C10_Witness ==
    /\ cfg.constructed /\ RequestedAnyCase /\ KeySet /\ env.client_raises
    /\ ~is_enabled(cfg) /\ ~cfg.client

\* ------------------------------------------------------------------ C11
\* C11: once langsmith_config is constructed no step changes is_enabled()
\* (nor the client it goes with), whatever calls are made and whatever
\* backend calls fail; a constructed chatbot's or agent's enable_tracing is
\* its constructor argument ANDed with the global flag, and no step changes
\* it either.
C11_FlagsFixedAfterConstruction ==
    [][/\ cfg.constructed => cfg' = cfg
       /\ chatbot.constructed => chatbot' = chatbot
       /\ agent.constructed => agent' = agent
       /\ chatbot'.constructed =>
              chatbot'.enable_tracing = (chatbot'.requested /\ is_enabled(cfg'))
       /\ agent'.constructed =>
              agent'.enable_tracing = (agent'.requested /\ is_enabled(cfg'))]_vars

C11_Witness ==
    /\ chatbot.constructed /\ chatbot.requested /\ is_enabled(cfg)
    /\ sess.pc = "done" /\ sess.op = "event"
    /\ Len(sess.hist) = 3
    /\ \A i \in DOMAIN sess.sinkLog : sess.sinkLog[i].sent /\ ~sess.sinkLog[i].ok

\* ------------------------------------------------------------------ C12
\* C12: an execute call goes idle -> awaiting _execute -> done; it calls
\* _execute once and never again; when _execute returns (a mapping, its
\* declared type) execute returns that very value; when _execute raises an
\* Exception execute raises that very error, and with tracing on it has
\* called end_run for its span with that error by then; a failure of
\* _execute is never turned into a return.
C12_ExecuteContract ==
    run.kind = "execute" =>
        /\ run.pc \in {"_execute", "done"}
        /\ Len(run.calls) = 1
        /\ run.calls[1] = [stage |-> "_execute", args |-> <<run.input>>]
        /\ Len(run.results) = (IF run.pc = "done" THEN 1 ELSE 0)
        /\ run.pc = "done" =>
               LET r == run.results[1]
               IN /\ (r.err = NoErr /\ has_keys(r.val)) =>
                         /\ run.outcome = "returned"
                         /\ run.result = r.val
                  /\ r.err # NoErr =>
                         /\ run.outcome = "raised"
                         /\ run.exc = r.err
                  /\ (IsException(r.err) /\ agent.enable_tracing) =>
                         /\ Cardinality(EndsOf(run, run.run_id)) = 1
                         /\ \A i \in EndsOf(run, run.run_id) :
                                /\ run.sinkLog[i].error = r.err
                                /\ run.sinkLog[i].outputs = NoneValue

C12_Witness ==
    /\ RunFinished /\ run.kind = "execute" /\ agent.enable_tracing
    /\ run.results[1].err \in Errors /\ run.outcome = "raised"
    /\ \A i \in DOMAIN run.sinkLog : run.sinkLog[i].ok

\* ------------------------------------------------------------------ C13
\* C13 as claimed: every finished _call_llm call (not a cancelled one) has
\* invoked llm.ainvoke exactly once, with the messages it was given; when
\* the model answered with a content field the call returned that content;
\* when the model raised, the call raised that error after calling end_run
\* with it for the span it had opened.
C13_CallModelOnce ==
    (RunFinished /\ run.kind = "_call_llm" /\ run.exc # CancelledError) =>
        /\ Len(run.calls) = 1
        /\ Len(run.results) = 1
        /\ run.calls[1] = [stage |-> "ainvoke", args |-> <<run.input>>]
        /\ (run.results[1].err = NoErr /\ run.results[1].val.content # Unset) =>
               /\ run.outcome = "returned"
               /\ run.result = run.results[1].val.content
        /\ run.results[1].err # NoErr =>
               /\ run.outcome = "raised"
               /\ run.exc = run.results[1].err
               /\ \A i \in Creates(run) :
                      \E j \in EndsOf(run, run.sinkLog[i].run_id) :
                          run.sinkLog[j].error = run.results[1].err

\* ------------------------------------------------------------------ C14
\* the session ids earlier start_conversation_session calls generated
EarlierGenerated(f) ==
    {f.hist[i].session_id : i \in {j \in 1..(Len(f.hist) - 1) : f.hist[j].generated}}
\* the spans in the sink now that were not there, or were different, before
\* the call of frame f
Touched(f) == {id \in DOMAIN spans : id \notin DOMAIN f.before
                                      \/ spans[id] # f.before[id]}

\* C14: start_conversation_session called without an id returns an id that
\* is neither None nor empty and differs from the id every earlier such call
\* returned; with tracing on it makes one sink call, a create_run whose run
\* id is the returned session id (so the one span it can open has that id);
\* with tracing off it makes none.
C14_FreshSessionId ==
    (sess.pc = "done" /\ sess.op = "start" /\ no_session_id(sess.arg)) =>
        /\ sess.outcome = "returned"
        /\ ~no_session_id(sess.result)
        /\ sess.result \notin EarlierGenerated(sess)
        /\ chatbot.enable_tracing =>
               /\ Len(sess.sinkLog) = 1
               /\ sess.sinkLog[1].op = "create"
               /\ sess.sinkLog[1].run_id = sess.result
               /\ Touched(sess) = (IF sess.sinkLog[1].ok THEN {sess.result} ELSE {})
               /\ sess.sinkLog[1].ok => spans[sess.result].open
        /\ ~chatbot.enable_tracing => (sess.sinkLog = <<>> /\ spans = sess.before)

C14_Witness ==
    /\ sess.pc = "done" /\ sess.op = "start" /\ sess.arg = NoId
    /\ chatbot.enable_tracing /\ sess.sinkLog[1].ok
    /\ Cardinality(EarlierGenerated(sess)) = 2

\* ------------------------------------------------------------------ C15
\* what the session calls made before the call of frame f left id as
SessionStatus(f, id) ==
    LET about == {i \in 1..(Len(f.hist) - 1) :
                      f.hist[i].session_id = id /\ f.hist[i].op \in {"start", "end"}}
    IN IF about = {} THEN "never started"
       ELSE LET last == CHOOSE i \in about : \A j \in about : j <= i
            IN IF f.hist[last].op = "start" THEN "active" ELSE "ended"

\* C15: start_conversation_session called with an id (a non-empty one)
\* raises nothing and returns that id, were the id never started, active or
\* ended; with tracing on it calls create_run for that id every time.
C15_SuppliedIdAccepted ==
    (sess.pc = "done" /\ sess.op = "start" /\ ~no_session_id(sess.arg)) =>
        /\ sess.outcome = "returned"
        /\ sess.exc = NoErr
        /\ sess.result = sess.arg
        /\ chatbot.enable_tracing =>
               /\ Len(sess.sinkLog) = 1
               /\ sess.sinkLog[1].op = "create"
               /\ sess.sinkLog[1].run_id = sess.arg
               /\ sess.sinkLog[1].sent

C15_Witness ==
    /\ sess.pc = "done" /\ sess.op = "start" /\ ~no_session_id(sess.arg)
    /\ chatbot.enable_tracing
    /\ SessionStatus(sess, sess.arg) = "ended"
    /\ sess.arg \in DOMAIN sess.before /\ ~sess.before[sess.arg].open

\* a second witness of C15's case: the id is active when it is started again
C15_ActiveAgain ==
    /\ sess.pc = "done" /\ sess.op = "start" /\ ~no_session_id(sess.arg)
    /\ chatbot.enable_tracing
    /\ SessionStatus(sess, sess.arg) = "active"

\* ------------------------------------------------------------------ C16
\* the call of frame f is an end_conversation_session that follows an
\* end_conversation_session of the same session id
SecondEnd(f) ==
    /\ f.pc = "done" /\ f.op = "end" /\ Len(f.hist) >= 2
    /\ f.hist[Len(f.hist) - 1].op = "end"
    /\ f.hist[Len(f.hist) - 1].session_id = f.arg

\* C16: an end_conversation_session that follows an end_conversation_session
\* of the same id raises nothing, with tracing on or off, whether the
\* backend takes the second close or rejects it.
C16_SecondEndDoesNotRaise ==
    SecondEnd(sess) => (sess.outcome = "returned" /\ sess.exc = NoErr)

C16_Witness ==
    /\ SecondEnd(sess) /\ chatbot.enable_tracing
    /\ sess.sinkLog[1].sent /\ ~sess.sinkLog[1].ok

\* ------------------------------------------------------------------ C17
\* C17: end_conversation_session(id, summary) with tracing on makes one sink
\* call, an end_run for id without error whose outputs hold session_ended =
\* True and hold the summary exactly when one (a non-empty one) was given;
\* with tracing off it makes no sink call and leaves the spans as they were.
C17_EndSessionEffect ==
    (sess.pc = "done" /\ sess.op = "end") =>
        IF chatbot.enable_tracing
        THEN /\ Len(sess.sinkLog) = 1
             /\ sess.sinkLog[1].op = "end"
             /\ sess.sinkLog[1].run_id = sess.arg
             /\ sess.sinkLog[1].error = NoErr
             /\ sess.sinkLog[1].outputs.session_ended = TRUE
             /\ ("summary" \in DOMAIN sess.sinkLog[1].outputs) <=> truthy(sess.summary)
             /\ truthy(sess.summary) => sess.sinkLog[1].outputs.summary = sess.summary
             /\ Touched(sess) \subseteq {sess.arg}
        ELSE /\ sess.sinkLog = <<>>
             /\ spans = sess.before

C17_Witness ==
    /\ sess.pc = "done" /\ sess.op = "end" /\ chatbot.enable_tracing
    /\ sess.summary = "Test summary" /\ sess.sinkLog[1].ok
    /\ sess.arg \in DOMAIN spans /\ ~spans[sess.arg].open
    /\ sess.before[sess.arg].open

\* ------------------------------------------------------------------ C18
\* what C18 says of a finished trace_custom_event call but for the state of
\* its span: nothing raised; with tracing on, a create_run with a fresh id
\* and the given session id as parent, then an end_run for that id, and no
\* other sink call; with tracing off, no sink call.
EventCalls(f) ==
    /\ f.outcome = "returned" /\ f.exc = NoErr
    /\ chatbot.enable_tracing =>
           /\ Len(f.sinkLog) = 2
           /\ f.sinkLog[1].op = "create"
           /\ f.sinkLog[1].run_id = f.run_id
           /\ f.run_id # NoId
           /\ f.run_id \notin DOMAIN f.before
           /\ f.run_id \notin KnownIds(f)
           /\ f.sinkLog[1].parent = f.arg
           /\ f.sinkLog[2].op = "end"
           /\ f.sinkLog[2].run_id = f.run_id
           /\ Touched(f) \subseteq {f.run_id}
    /\ ~chatbot.enable_tracing => (f.sinkLog = <<>> /\ spans = f.before)

\* C18 as claimed: ... and the span it opened is not open when it returns.
C18_EventSpanNeverLeftOpen ==
    (sess.pc = "done" /\ sess.op = "event") =>
        /\ EventCalls(sess)
        /\ sess.run_id \in DOMAIN spans => ~spans[sess.run_id].open

\* C18 amended: trace_custom_event never raises; with tracing on it calls
\* create_run with a fresh id (parent: the given session id) and then
\* end_run for that same id before it returns; the span is still open
\* afterwards only if the backend call of that end_run failed; with tracing
\* off it makes no sink call.
C18_EventOpenedAndCloseIssued ==
    (sess.pc = "done" /\ sess.op = "event") =>
        /\ EventCalls(sess)
        /\ (sess.run_id \in DOMAIN spans /\ spans[sess.run_id].open) =>
               (sess.sinkLog[2].sent /\ ~sess.sinkLog[2].ok)

C18_Witness ==
    /\ sess.pc = "done" /\ sess.op = "event" /\ chatbot.enable_tracing
    /\ sess.arg # NoId
    /\ sess.sinkLog[1].ok /\ sess.sinkLog[2].ok
    /\ ~spans[sess.run_id].open /\ spans[sess.run_id].parent = sess.arg

\* ------------------------------------------------------------------ C19
\* C19: when a traced ask_question is cancelled while it awaits a
\* collaborator, the call ends with CancelledError, and neither the root
\* span nor the child span of the stage in flight gets an end_run call: each
\* of the two that the backend had opened is still open.
C19_CancelledLeavesSpansOpen ==
    (AskDone /\ ask.exc = CancelledError /\ chatbot.enable_tracing) =>
        LET n == Len(ask.calls)
            mine == {ask.run_id, ChildIds(ask)[n]}
        IN /\ ask.outcome = "raised"
           /\ ask.results[n].err = CancelledError
           /\ NoId \notin mine
           /\ \A id \in mine : EndsOf(ask, id) = {}
           /\ \A i \in Creates(ask) :
                  (ask.sinkLog[i].run_id \in mine /\ ask.sinkLog[i].ok) =>
                      spans[ask.sinkLog[i].run_id].open

C19_Witness ==
    /\ AskDone /\ ask.exc = CancelledError /\ chatbot.enable_tracing
    /\ Len(ask.calls) = 2
    /\ \A i \in DOMAIN ask.sinkLog : ask.sinkLog[i].ok
    /\ spans[ask.run_id].open /\ spans[ask.document_search_run_id].open
    /\ ~spans[ask.company_extraction_run_id].open

\* ------------------------------------------------------------------ C20
\* the span ids frame f generated: those it called create_run with
OwnIds(f) == {f.sinkLog[i].run_id : i \in Creates(f)}
\* frame f ended as the same call run alone on f's question with f's
\* collaborator results
AsIfAlone(f) ==
    LET u == AskAlone(f.question, cfg, chatbot.enable_tracing, f.results)
    IN /\ u.pc = "done"
       /\ f.calls = u.calls
       /\ f.outcome = u.outcome
       /\ f.exc = u.exc
       /\ f.result = u.result
       /\ [i \in DOMAIN f.sinkLog |-> f.sinkLog[i].op]
              = [i \in DOMAIN u.sinkLog |-> u.sinkLog[i].op]

\* C20: of two ask_question calls on one chatbot interleaved at their
\* awaits, each ends only spans whose ids it generated itself, the ids of
\* the two are disjoint (so neither closes a span of the other), and each
\* finishes with the exchange record or the error of the same call run
\* alone on its own question and its own collaborator results.
C20_InterleavedCallsIndependent ==
    /\ \A i \in Ends(ask) : ask.sinkLog[i].run_id \in OwnIds(ask)
    /\ \A i \in Ends(ask2) : ask2.sinkLog[i].run_id \in OwnIds(ask2)
    /\ OwnIds(ask) \cap OwnIds(ask2) = {}
    /\ \A i \in Ends(ask) : ask.sinkLog[i].run_id \notin OwnIds(ask2)
    /\ \A i \in Ends(ask2) : ask2.sinkLog[i].run_id \notin OwnIds(ask)
    /\ ask.pc = "done" => (ask.question = FirstQuestion /\ AsIfAlone(ask))
    /\ ask2.pc = "done" => (ask2.question = SecondQuestion /\ AsIfAlone(ask2))

\* both calls finished, having taken turns: the second call started while
\* the first awaited extraction and ran its search stage before the first
\* ran its own; the first returned, the second failed in generation
C20_Witness ==
    /\ ask.pc = "done" /\ ask2.pc = "done" /\ chatbot.enable_tracing
    /\ ask.run_id < ask2.run_id
    /\ ask2.document_search_run_id < ask.document_search_run_id
    /\ ask.document_search_run_id < ask2.answer_generation_run_id
    /\ ask.outcome = "returned" /\ ask.result.question = FirstQuestion
    /\ ask2.outcome = "raised" /\ ask2.exc = "RuntimeError"
    /\ Len(ask2.results) = 3

\* ------------------------------------------------------------------ C23
\* the child spans frame f has called create_run for and not yet end_run
ChildrenInFlight(f) ==
    {id \in OwnIds(f) \ {f.run_id} : EndsOf(f, id) = {}}
\* the child spans of frame f that are open in the backend
ChildrenOpen(f) ==
    {id \in OwnIds(f) \ {f.run_id} : id \in DOMAIN spans /\ spans[id].open}
\* the order of the sink calls of a traced ask_question frame f: the root's
\* create_run comes first; every other create_run is a child's, named after
\* its stage, with the root's id as parent; at most one child is between its
\* create_run and its end_run; the root's end_run, once made, is the last
\* sink call and comes after the end_run of every child created
NestedCalls(f) ==
    /\ f.sinkLog # <<>> =>
           /\ f.sinkLog[1].op = "create"
           /\ f.sinkLog[1].run_id = f.run_id
           /\ f.sinkLog[1].parent = NoId
    /\ \A i \in Creates(f) :
           i > 1 =>
               /\ f.sinkLog[i].name \in {StageSpans[k] : k \in 1..3}
               /\ f.sinkLog[i].run_id # f.run_id
               /\ f.sinkLog[i].parent = f.run_id
    /\ Cardinality(ChildrenInFlight(f)) <= 1
    /\ \A j \in EndsOf(f, f.run_id) :
           /\ j = Len(f.sinkLog)
           /\ ChildrenInFlight(f) = {}
    /\ (f.pc = "done" /\ f.exc # CancelledError) =>
           /\ f.sinkLog[Len(f.sinkLog)].op = "end"
           /\ f.sinkLog[Len(f.sinkLog)].run_id = f.run_id

\* C23 as claimed: in a traced ask_question the sink calls are nested as
\* above, at most one child span is open at any moment, and once the root
\* span is closed every child span that was opened is closed.
C23_SpansProperlyNested ==
    chatbot.enable_tracing =>
        /\ NestedCalls(ask)
        /\ Cardinality(ChildrenOpen(ask)) <= 1
        /\ (ask.run_id \in DOMAIN spans /\ ~spans[ask.run_id].open) =>
               ChildrenOpen(ask) = {}

\* C23 amended: in a traced ask_question the root's create_run comes before
\* any child's, every child's create_run names the root's id as parent, at
\* most one child is between its create_run and its end_run at any moment,
\* and on every path that returns or raises an Exception the end_run of each
\* child created comes before the root's end_run, which is the call's last
\* sink call; a child span is open in the backend after its end_run was
\* called only if the backend call of that end_run failed.
C23_SinkCallsProperlyNested ==
    chatbot.enable_tracing =>
        /\ NestedCalls(ask)
        /\ \A id \in ChildrenOpen(ask) \ ChildrenInFlight(ask) :
               \A j \in EndsOf(ask, id) : ask.sinkLog[j].sent /\ ~ask.sinkLog[j].ok

C23_Witness ==
    /\ AskDone /\ chatbot.enable_tracing
    /\ Len(ask.results) = 2 /\ ask.results[2].err \in Errors
    /\ Len(ask.sinkLog) = 6
    /\ \A i \in DOMAIN ask.sinkLog : ask.sinkLog[i].ok
    /\ \A id \in DOMAIN spans : ~spans[id].open

\* ------------------------------------------------------------------ C21
\* C21: in the UI, a page run whose ask_question call returned leaves the
\* conversation history one record longer than it found it, the new record
\* last and carrying the answer returned; a page run whose ask_question
\* call raised (a stage of the pipeline failed) leaves the history as it
\* found it.
C21_HistoryGrowsOnlyOnAnswer ==
    ui.last.asked =>
        IF ui.last.outcome = "returned"
        THEN /\ Len(ui.conversation_history) = Len(ui.last.before) + 1
             /\ SubSeq(ui.conversation_history, 1, Len(ui.last.before)) = ui.last.before
             /\ ui.conversation_history[Len(ui.conversation_history)].answer
                    = ui.last.result.answer
        ELSE ui.conversation_history = ui.last.before

\* a question failed after an earlier one was answered: the history keeps
\* the one record it had
C21_Witness ==
    /\ ui.last.asked
    /\ ui.last.outcome = "raised"
    /\ Len(ui.last.before) = 1
    /\ ui.conversation_history = ui.last.before

\* the other case of C21: a second question answered
C21_SecondAnswer ==
    /\ ui.last.asked
    /\ ui.last.outcome = "returned"
    /\ Len(ui.last.before) = 1
    /\ Len(ui.conversation_history) = 2

\* ------------------------------------------------------------------ C22
\* the sessions the UI started and did not call end_conversation_session for
LiveSessions == ui.started \ ui.ended

\* C22: in the UI, after any sequence of page runs, Reset Session and Clear
\* All Data, at most one session was started and not ended, and it is the
\* stored one; a session was started only while the stored id was empty;
\* and every id that was stored and is stored no more had
\* end_conversation_session called on it.
C22_AtMostOneLiveSession ==
    /\ Cardinality(LiveSessions) <= 1
    /\ LiveSessions \subseteq {ui.session_id}
    /\ ui.over \subseteq {NoId}
    /\ \A id \in ui.started : id # ui.session_id => id \in ui.ended
    /\ ~no_session_id(ui.session_id) => ui.session_id \in LiveSessions

\* two resets or clears after the first page run: the third session is the
\* stored one, the first two were ended
C22_Witness ==
    /\ ui.last.event \in {"reset", "clear"}
    /\ Cardinality(ui.started) = 3
    /\ Cardinality(ui.ended) = 2
    /\ ui.session_id \in ui.started \ ui.ended

\* ------------------------------------------------------------------ C24
\* C24: a /chat request handled with the chatbot initialized and the three
\* stages of the pipeline succeeding is answered with status 200, the
\* generated answer, the sources, and the session id of the request, or a
\* newly started session's id when the request carried none.
C24_ChatSucceeds ==
    (http.last.op = "chat" /\ http.last.chatbot_ready /\ http.last.answers = AppOk) =>
        /\ http.last.status = 200
        /\ http.last.answer = AppOk[3].val
        /\ http.last.sources =
              AskAlone(http.last.question, cfg, chatbot.enable_tracing, AppOk).result.sources
        /\ IF no_session_id(http.last.session_arg)
           THEN ~no_session_id(http.last.session_id)
           ELSE http.last.session_id = http.last.session_arg

\* ------------------------------------------------------------------ C25
\* the request was rejected by the handler's validation
ValidationRejects(r) ==
    \/ r.op = "upload" /\ (r.filename = "" \/ r.extension \notin allowed_extensions)
    \/ r.op = "end_session" /\ (no_session_id(r.session_arg) \/ ~r.chatbot_ready)

\* C25: an upload with an empty file name or an unsupported extension, and
\* an end_session with an empty session id or no chatbot, are answered with
\* status 400; status 500 answers only requests that passed validation.
C25_ValidationKeepsStatus ==
    /\ ValidationRejects(http.last) => http.last.status = 400
    /\ http.last.status = 500 => ~ValidationRejects(http.last)

\* ------------------------------------------------------------------ C26
\* C26: when an upload handler (upload_document of the API,
\* handle_document_upload of the UI) has finished, the temporary file it
\* created is deleted, whether process_document returned success, reported
\* failure, or raised.
C26_TempFilesDeleted ==
    /\ ui.last.processing \in {"success", "failure", "raised"}
          => ui.last.file \notin tmp.existing
    /\ (http.last.op = "upload"
          /\ http.last.processing \in {"success", "failure", "raised"})
          => http.last.file \notin tmp.existing

====
